---------------------------- MODULE Spec2Model ----------------------------
(***************************************************************************)
(* SmartTrainer analysis engine: the repetition state machine RepCounter,  *)
(* the per-exercise analyzers and the GeometricRuleEngine orchestrator.    *)
(*                                                                         *)
(* Units.  A completion signal in [0,1] is an integer number of hundredths *)
(* (0.35 is 35); a shoulder height is in hundredths of the frame height;   *)
(* a time is in milliseconds.                                              *)
(***************************************************************************)
EXTENDS Integers, Sequences, FiniteSets, TLC

VARIABLES
    rc,         \* a RepCounter object (ExerciseAnalyzer.ts:68-214)
    lastOp,     \* the method called last on rc
    refState,   \* observer of the completion signal: "L", "R" or "H"
    refCount,   \* observer: completed low->high->low cycles of the signal
    lastSample, \* observer: the previous completion sample, null when none
    crossed,    \* observer: two adjacent samples crossed both thresholds
    skipped,    \* observer: a sample skipped a band the counter must see
    script,     \* the completion sequence a scripted run feeds
    pos,        \* number of samples of script fed so far
    fedTimes,   \* timestamps of the samples fed so far
    phaseTrace, \* phase returned by each update() so far
    wall,       \* the value Date.now() returns
    eng,        \* a GeometricRuleEngine with its sixteen analyzers
    fb,         \* what the last analyze call on eng returned, or that it threw
    inp,        \* length of the landmarks array and timestamp of that call
    run,        \* observer of the detection run of eng
    burst,      \* observer: shoulder movement fed to eng so far
    sess,       \* observer of the recording session of eng
    label,      \* what the last direct call of classifyExercise returned
    eng2,       \* a second engine, given the same calls as eng
    fb2,        \* what the last analyzeFrame call on eng2 returned
    wall2,      \* the value Date.now() returns for eng2
    obs,        \* observer of the calls of the specification under way
    rcMirror,   \* a second RepCounter, given the calls made on rc
    scorer,     \* a biomechanical scorer: its class and its history buffer
    pillars,    \* what the last analyzePillars call on scorer returned
    upload      \* the upload flow of an analysis screen and its pending callbacks

repVars == <<rc, lastOp, refState, refCount, lastSample, crossed, skipped>>
scriptVars == <<script, pos, fedTimes, phaseTrace>>
engVars == <<eng, fb, inp, run, burst, sess, label>>
pairVars == <<eng2, fb2, wall2>>
auxVars == <<obs, rcMirror>>
sideVars == <<scorer, pillars, upload>>
vars == <<repVars, scriptVars, wall, engVars, pairVars, auxVars, sideVars>>

-----------------------------------------------------------------------------
(* Bounds of the model *)

MaxReps == 2
MaxRun == 2
MaxWallSteps == 2
MaxBurst == 1
MaxFrames == 6
MaxSwitches == 1
MaxSessionFrames == 5
MaxCalls == 4
MaxPairFrames == 4

(* Date.now() when the program starts, far above every video timestamp *)
WallEpoch == 1000000000
WallStep == 400

(* null and undefined of the program: a value no time or sample takes *)
null == -1000000

-----------------------------------------------------------------------------
(* RepCounter: ExerciseAnalyzer.ts:59-214 *)

RepPhase == {"Rest", "Eccentric", "Bottom", "Concentric", "Top"}
CountMode == {"EccentricFirst", "ConcentricFirst"}

DefaultThresholdHigh == 55
DefaultThresholdLow == 35
Deadband == 10

(* The (mode, thresholdLow, thresholdHigh) the analyzers construct their   *)
(* counters with.                                                          *)
CounterConfigs ==
    { <<"EccentricFirst", DefaultThresholdLow, DefaultThresholdHigh>>,
      <<"ConcentricFirst", DefaultThresholdLow, DefaultThresholdHigh>>,
      <<"EccentricFirst", 35, 60>>,
      <<"EccentricFirst", 25, 65>>,
      <<"EccentricFirst", 25, 75>>,
      <<"ConcentricFirst", 40, 55>>,
      <<"ConcentricFirst", 30, 70>> }

NewRepCounter(mode, low, high) ==
    [ count |-> 0,
      currentPhase |-> "Rest",
      lastPhaseTimestamp |-> 0,
      thresholdHigh |-> high,
      thresholdLow |-> low,
      mode |-> mode,
      repTimestamps |-> <<>>,
      currentRepStartTime |-> null,
      currentRepMidTime |-> null,
      recordingStartTime |-> 0 ]

setRecordingStartTimeRC(c, time) == [c EXCEPT !.recordingStartTime = time]

(* Guards of the transitions, the same in both modes *)
LeavesStart(c, completion) == completion > c.thresholdLow
ReachesPeakMutStrict(c, completion) == completion > c.thresholdHigh
ReachesPeak(c, completion) == completion >= c.thresholdHigh
IsFalseStart(c, completion) == completion < c.thresholdLow
LeavesPeakMutNoDeadband(c, completion) == completion < c.thresholdHigh
LeavesPeak(c, completion) == completion < c.thresholdHigh - Deadband
CompletesRepMutStrict(c, completion) == completion < c.thresholdLow
CompletesRep(c, completion) == completion <= c.thresholdLow
SinksBackMutAtThreshold(c, completion) == completion >= c.thresholdHigh
SinksBack(c, completion) == completion > c.thresholdHigh

(* this.currentRepMidTime || currentMs : null and 0 are both falsy *)
MidOrFallback(mid, currentMs) == IF mid = null \/ mid = 0 THEN currentMs ELSE mid

StartRepMutNoMarker(c, phase, currentMs) == [c EXCEPT !.currentPhase = phase]

StartRep(c, phase, currentMs) ==
    [c EXCEPT !.currentPhase = phase,
              !.currentRepStartTime =
                  IF c.currentRepStartTime = null THEN currentMs
                  ELSE c.currentRepStartTime]

MarkPeak(c, phase, now, currentMs) ==
    [c EXCEPT !.currentPhase = phase,
              !.lastPhaseTimestamp = now,
              !.currentRepMidTime = currentMs]

FalseStartMutKeepsMarkers(c, phase) == [c EXCEPT !.currentPhase = phase]

FalseStartMutDropsRep(c, phase) ==
    [c EXCEPT !.currentPhase = phase,
              !.count = IF c.count > 0 THEN c.count - 1 ELSE 0,
              !.currentRepStartTime = null,
              !.currentRepMidTime = null]

FalseStartMutKeepsStart(c, phase) ==
    [c EXCEPT !.currentPhase = phase, !.currentRepMidTime = null]

FalseStart(c, phase) ==
    [c EXCEPT !.currentPhase = phase,
              !.currentRepStartTime = null,
              !.currentRepMidTime = null]

FinishRep(c, phase, now, currentMs) ==
    LET counted == [c EXCEPT !.count = c.count + 1,
                             !.currentPhase = phase,
                             !.lastPhaseTimestamp = now]
    IN IF c.currentRepStartTime # null
       THEN [counted EXCEPT
                !.repTimestamps = Append(c.repTimestamps,
                    [start |-> c.currentRepStartTime,
                     mid |-> MidOrFallback(c.currentRepMidTime, currentMs),
                     end |-> currentMs]),
                !.currentRepStartTime = null,
                !.currentRepMidTime = null]
       ELSE counted

UpdateEccentricFirst(c, completion, now, currentMs) ==
    CASE c.currentPhase \in {"Rest", "Top"} ->
            IF LeavesStart(c, completion)
            THEN StartRep(c, "Eccentric", currentMs) ELSE c
      [] c.currentPhase = "Eccentric" ->
            IF ReachesPeak(c, completion)
            THEN MarkPeak(c, "Bottom", now, currentMs)
            ELSE IF IsFalseStart(c, completion)
                 THEN FalseStart(c, "Top") ELSE c
      [] c.currentPhase = "Bottom" ->
            IF LeavesPeak(c, completion)
            THEN [c EXCEPT !.currentPhase = "Concentric"] ELSE c
      [] c.currentPhase = "Concentric" ->
            IF CompletesRep(c, completion)
            THEN FinishRep(c, "Top", now, currentMs)
            ELSE IF SinksBack(c, completion)
                 THEN [c EXCEPT !.currentPhase = "Bottom"] ELSE c

UpdateConcentricFirstMutKeepsStart(c, completion, now, currentMs) ==
    CASE c.currentPhase \in {"Rest", "Bottom"} ->
            IF LeavesStart(c, completion)
            THEN StartRep(c, "Concentric", currentMs) ELSE c
      [] c.currentPhase = "Concentric" ->
            IF ReachesPeak(c, completion)
            THEN MarkPeak(c, "Top", now, currentMs)
            ELSE IF IsFalseStart(c, completion)
                 THEN FalseStartMutKeepsMarkers(c, "Bottom") ELSE c
      [] c.currentPhase = "Top" ->
            IF LeavesPeak(c, completion)
            THEN [c EXCEPT !.currentPhase = "Eccentric"] ELSE c
      [] c.currentPhase = "Eccentric" ->
            IF CompletesRep(c, completion)
            THEN FinishRep(c, "Bottom", now, currentMs)
            ELSE IF SinksBack(c, completion)
                 THEN [c EXCEPT !.currentPhase = "Top"] ELSE c

UpdateConcentricFirst(c, completion, now, currentMs) ==
    CASE c.currentPhase \in {"Rest", "Bottom"} ->
            IF LeavesStart(c, completion)
            THEN StartRep(c, "Concentric", currentMs) ELSE c
      [] c.currentPhase = "Concentric" ->
            IF ReachesPeak(c, completion)
            THEN MarkPeak(c, "Top", now, currentMs)
            ELSE IF IsFalseStart(c, completion)
                 THEN FalseStart(c, "Bottom") ELSE c
      [] c.currentPhase = "Top" ->
            IF LeavesPeak(c, completion)
            THEN [c EXCEPT !.currentPhase = "Eccentric"] ELSE c
      [] c.currentPhase = "Eccentric" ->
            IF CompletesRep(c, completion)
            THEN FinishRep(c, "Bottom", now, currentMs)
            ELSE IF SinksBack(c, completion)
                 THEN [c EXCEPT !.currentPhase = "Top"] ELSE c

(* update(completion, timestamp): dateNow is what Date.now() returns *)
update(c, completion, timestamp, dateNow) ==
    LET now == IF timestamp = null THEN dateNow ELSE timestamp
        currentMs == now - c.recordingStartTime
    IN IF c.mode = "EccentricFirst"
       THEN UpdateEccentricFirst(c, completion, now, currentMs)
       ELSE UpdateConcentricFirst(c, completion, now, currentMs)

resetRC(c) ==
    [c EXCEPT !.count = 0,
              !.currentPhase = "Rest",
              !.repTimestamps = <<>>,
              !.currentRepStartTime = null,
              !.currentRepMidTime = null]

-----------------------------------------------------------------------------
(* Exercises and frames.  A frame is what the analysis reads from the      *)
(* landmarks array: its length, the label the geometric cascade of the     *)
(* classifier gives it, the mean shoulder height, and the quantities the   *)
(* analyzers compute from joint positions.  Scores are in hundredths of a  *)
(* point (80 is 8000, the 1.0 of the Plank analyzer is 100).               *)

(* null of an ExerciseType | null, undefined of an optional string *)
none == "null"
AutoDetect == "Auto-Detect"

(* the analyzers that own a RepCounter *)
CounterExercises ==
    {"Squat", "Leg Extension", "Leg Raises", "Push Up", "Bench Press",
     "Incline Bench Press", "Chest Fly Machine", "Tricep Dips", "Pull Up",
     "Lat Pulldown", "T-Bar Row", "Barbell Biceps Curl", "Lateral Raises"}
Exercises == CounterExercises \cup {"Plank", "Russian Twist"}
ExerciseType == Exercises \cup {AutoDetect}

(* the RepCounter each analyzer constructs; the 'Auto-Detect' slot of the  *)
(* engine holds a second SquatAnalyzer                                     *)
AnalyzerCounter(ex) ==
    CASE ex \in {"Squat", AutoDetect} ->
            NewRepCounter("EccentricFirst", DefaultThresholdLow, DefaultThresholdHigh)
      [] ex \in {"Leg Extension", "Lateral Raises"} ->
            NewRepCounter("ConcentricFirst", DefaultThresholdLow, DefaultThresholdHigh)
      [] ex = "Leg Raises" -> NewRepCounter("ConcentricFirst", 30, 70)
      [] ex = "Push Up" -> NewRepCounter("EccentricFirst", 35, 60)
      [] ex = "Incline Bench Press" -> NewRepCounter("EccentricFirst", 25, 75)
      [] ex = "Tricep Dips" -> NewRepCounter("EccentricFirst", 25, 65)
      [] ex = "Pull Up" -> NewRepCounter("ConcentricFirst", 40, 55)
      [] OTHER ->
            NewRepCounter("EccentricFirst", DefaultThresholdLow, DefaultThresholdHigh)

Abs(x) == IF x < 0 THEN -x ELSE x
MaxOf(S) == CHOOSE x \in S : \A y \in S : y <= x
MinOf(S) == CHOOSE x \in S : \A y \in S : x <= y
Range(s) == {s[i] : i \in 1..Len(s)}

(* landmarks[i] is undefined when i is past the end of the array, and      *)
(* reading a field of undefined throws a TypeError                         *)
ReadsPastEnd(indices, len) == \E i \in indices : i >= len

(* !landmarks || landmarks.length === 0; a missing array has length null   *)
NoLandmarks(f) == f.len = null \/ f.len = 0

(* ExerciseClassifier: the label of the cascade, behind the length guard   *)
classifyExercise(f) == IF f.len < 33 THEN none ELSE f.cls

-----------------------------------------------------------------------------
(* Feedback *)

Feedback(score, reps, repPhase, message, isGoodForm, detectedExercise) ==
    [ threw |-> FALSE,
      score |-> score,
      reps |-> reps,
      repPhase |-> repPhase,
      message |-> message,
      prefix |-> none,
      isGoodForm |-> isGoodForm,
      detectedExercise |-> detectedExercise ]

(* the call ended in a TypeError instead of returning a Feedback *)
Thrown ==
    [ threw |-> TRUE,
      score |-> null,
      reps |-> null,
      repPhase |-> none,
      message |-> "TypeError",
      prefix |-> none,
      isGoodForm |-> FALSE,
      detectedExercise |-> none ]

(* emptyFeedback() of the analyzers *)
emptyFeedback == Feedback(0, 0, "Rest", "No Pose", FALSE, none)
emptyFeedbackTwist == Feedback(0, 0, "Rest", "No Pose", FALSE, "Russian Twist")

(* the three placeholder results of analyzeFrame *)
NoPoseDetected == Feedback(0, 0, "Rest", "No pose detected", FALSE, none)
Scanning == Feedback(0, 0, "Scanning...", "Get in position...", FALSE, none)
Detecting(potential, detected) ==
    Feedback(0, 0, "Detecting " \o potential \o "...",
             IF detected = "Plank" THEN "Hold still for Plank..."
             ELSE "Start moving for " \o detected \o "...",
             FALSE, potential)

-----------------------------------------------------------------------------
(* Analyzers with a RepCounter.  f.completion is the normalized position   *)
(* the analyzer computes, f.total its weighted pillar score, f.flagged     *)
(* whether the squat analysis raised a quality flag.                       *)

GoodForm(ex, f) ==
    IF ex \in {"Squat", AutoDetect} THEN f.total > 8000 /\ ~f.flagged
    ELSE f.total > 8000

CounterAnalyze(c, ex, f, timestamp, dateNow) ==
    IF f.len < 33 THEN [st |-> c, fb |-> emptyFeedback]
    ELSE LET st == update(c, f.completion, timestamp, dateNow)
         IN [st |-> st,
             fb |-> Feedback(f.total, st.count, st.currentPhase,
                             IF st.currentPhase = "Rest" THEN "Get Set"
                             ELSE st.currentPhase,
                             GoodForm(ex, f), none)]

-----------------------------------------------------------------------------
(* PlankAnalyzer: PlankAnalyzer.ts.  Times of the timer are milliseconds.  *)

NewPlank ==
    [ accumulatedSeconds |-> 0,
      lastFrameTime |-> 0,
      isHolding |-> FALSE,
      bufferTime |-> 0,
      recordingStartTime |-> 0 ]

setElapsedTime(p, ms) == [p EXCEPT !.accumulatedSeconds = ms, !.isHolding = TRUE]

(* the landmarks analyze() reads: both hips, then one side of the body *)
PlankLandmarks(f) ==
    {23, 24} \cup (IF f.leftSide THEN {11, 23, 25, 27, 13} ELSE {12, 24, 26, 28, 14})

PlankGoodForm(f) == f.hipAngle >= 165 /\ ~f.sagging /\ f.kneeAngle >= 160

PlankMessage(f, good, counting) ==
    IF good THEN (IF counting THEN "Good Plank! Hold it!" ELSE "Stabilizing...")
    ELSE IF f.kneeAngle < 160 THEN "Legs bent"
    ELSE IF f.sagging THEN "Hips sagging"
    ELSE "Hips too high"

BreaksHoldMutLosesTime(p) ==
    [p EXCEPT !.isHolding = FALSE, !.bufferTime = 0, !.accumulatedSeconds = 0]

(* lines 100-103: a break of form resets the buffer, not the time held *)
BreaksHold(p) == [p EXCEPT !.isHolding = FALSE, !.bufferTime = 0]

PlankAnalyze(p, f, dateNow) ==
    LET now == dateNow
        last == IF p.lastFrameTime = 0 THEN now ELSE p.lastFrameTime
        deltaTime == now - last
        timed == [p EXCEPT !.lastFrameTime = now]
        good == PlankGoodForm(f)
        buffer == p.bufferTime + deltaTime
        counting == good /\ buffer > 500
        st == IF good
              THEN IF counting
                   THEN [timed EXCEPT !.bufferTime = buffer,
                                      !.isHolding = TRUE,
                                      !.accumulatedSeconds = @ + deltaTime]
                   ELSE [timed EXCEPT !.bufferTime = buffer]
              ELSE BreaksHold(timed)
        stabilityScore == IF good THEN 100 ELSE 50
        lost == (Abs(180 - f.hipAngle) * 100) \div 40
        postureScore == IF lost > 100 THEN 0 ELSE 100 - lost
    IN IF ReadsPastEnd(PlankLandmarks(f), f.len)
       THEN [st |-> timed, fb |-> Thrown]
       ELSE [st |-> st,
             fb |-> Feedback((stabilityScore + postureScore) \div 2,
                             st.accumulatedSeconds \div 1000,
                             IF st.isHolding THEN "Holding" ELSE "Resisted",
                             PlankMessage(f, good, counting), good, none)]

-----------------------------------------------------------------------------
(* RussianTwistAnalyzer: RussianTwistAnalyzer.ts.  f.xOffset is the wrist  *)
(* centre minus the hip centre, f.shoulderWidth the distance between the   *)
(* shoulders, both in hundredths of the frame width.                       *)

NewTwist(dateNow) ==
    [ lastXOffset |-> 0,
      direction |-> "center",
      repCount |-> 0,
      crossedCenter |-> FALSE,
      lastPeakTime |-> dateNow,
      currentMidTime |-> 0,
      repTimestamps |-> <<>>,
      recordingStartTime |-> 0 ]

(* Math.abs(leftShoulder.x - rightShoulder.x) * 0.5 *)
twistThreshold(f) == (Abs(f.shoulderWidth) * 5) \div 10

RefractoryMutNone(now, lastPeakTime) == TRUE

(* now - this.lastPeakTime > 500 *)
Refractory(now, lastPeakTime) == now - lastPeakTime > 500

TwistAnalyze(t, f, timestamp, dateNow) ==
    IF f.len < 33 THEN [st |-> t, fb |-> emptyFeedbackTwist]
    ELSE
    LET now == IF timestamp = null \/ timestamp = 0 THEN dateNow ELSE timestamp
        currentDir == IF f.xOffset > 0 THEN "left" ELSE "right"
        peak == Abs(f.xOffset) > twistThreshold(f) /\ currentDir # t.direction
        counts == peak /\ t.crossedCenter /\ Refractory(now, t.lastPeakTime)
        counted ==
            IF counts
            THEN [t EXCEPT
                    !.repCount = @ + 1,
                    !.crossedCenter = FALSE,
                    !.repTimestamps =
                        IF t.lastPeakTime > 0
                        THEN Append(@, [start |-> t.lastPeakTime,
                                        mid |-> IF t.currentMidTime # 0
                                                THEN t.currentMidTime
                                                ELSE (t.lastPeakTime + now) \div 2,
                                        end |-> now])
                        ELSE @,
                    !.lastPeakTime = now,
                    !.currentMidTime = 0]
            ELSE t
        turned == IF peak THEN [counted EXCEPT !.direction = currentDir] ELSE counted
        crosses == \/ t.lastXOffset > 0 /\ f.xOffset < 0
                   \/ t.lastXOffset < 0 /\ f.xOffset > 0
        centred == IF crosses
                    THEN [turned EXCEPT !.crossedCenter = TRUE, !.currentMidTime = now]
                    ELSE turned
        st == [centred EXCEPT !.lastXOffset = f.xOffset]
    IN [st |-> st,
        fb |-> Feedback(10000, st.repCount,
                        IF st.direction = "left" THEN "Twisting Left"
                        ELSE "Twisting Right",
                        "Twist side to side", TRUE, "Russian Twist")]

-----------------------------------------------------------------------------
(* GeometricRuleEngine: GeometricRuleEngine.ts.  An engine is a record of  *)
(* its fields; counters, plank and twist are the states of the analyzers   *)
(* it constructs.                                                          *)

HistoryLength == 30
MovementThreshold == 5

NewEngine(dateNow) ==
    [ currentExercise |-> "Squat",
      isLocked |-> FALSE,
      lockedExercise |-> none,
      consecutiveFrames |-> 0,
      potentialExercise |-> none,
      shoulderHistory |-> <<>>,
      counters |-> [ex \in CounterExercises \cup {AutoDetect} |-> AnalyzerCounter(ex)],
      plank |-> NewPlank,
      twist |-> NewTwist(dateNow) ]

setExercise(e, exercise) ==
    [e EXCEPT !.currentExercise = exercise,
              !.isLocked = FALSE,
              !.lockedExercise = none,
              !.consecutiveFrames = 0,
              !.potentialExercise = none]

setRecordingStartTime(e, timestamp) ==
    [e EXCEPT !.counters = [ex \in DOMAIN @ |-> setRecordingStartTimeRC(@[ex], timestamp)],
              !.plank.recordingStartTime = timestamp,
              !.twist.recordingStartTime = timestamp]

(* analyzer.analyze(landmarks, timestamp) of the analyzer of target *)
Analyze(e, target, f, timestamp, dateNow) ==
    IF target = "Plank"
    THEN LET r == PlankAnalyze(e.plank, f, dateNow)
         IN [eng |-> [e EXCEPT !.plank = r.st], fb |-> r.fb]
    ELSE IF target = "Russian Twist"
    THEN LET r == TwistAnalyze(e.twist, f, timestamp, dateNow)
         IN [eng |-> [e EXCEPT !.twist = r.st], fb |-> r.fb]
    ELSE LET r == CounterAnalyze(e.counters[target], target, f, timestamp, dateNow)
         IN [eng |-> [e EXCEPT !.counters[target] = r.st], fb |-> r.fb]

(* lines 189-200: delegate, then stamp the result *)
Route(e, target, f, timestamp, dateNow) ==
    LET r == Analyze(e, target, f, timestamp, dateNow)
    IN IF r.fb.threw THEN r
       ELSE [eng |-> r.eng,
             fb |-> [r.fb EXCEPT
                       !.prefix = IF e.currentExercise = AutoDetect
                                  THEN target ELSE none,
                       !.detectedExercise =
                           IF e.lockedExercise # none THEN e.lockedExercise
                           ELSE IF e.currentExercise # AutoDetect
                                THEN e.currentExercise ELSE none]]

PushShoulder(h, y) ==
    LET pushed == Append(h, y)
    IN IF Len(pushed) > HistoryLength THEN Tail(pushed) ELSE pushed

Spread(h) == MaxOf(Range(h)) - MinOf(Range(h))

LockThreshold(detected) ==
    IF detected \in {"Pull Up", "Lat Pulldown", "Bench Press", "Leg Raises"} THEN 4
    ELSE IF detected \in {"Russian Twist", "Lateral Raises"} THEN 12
    ELSE IF detected = "Plank" THEN 30
    ELSE 6

LocksMutAtThreshold(consecutiveFrames, lockThreshold) ==
    consecutiveFrames >= lockThreshold

Locks(consecutiveFrames, lockThreshold) == consecutiveFrames > lockThreshold

DynamicUnlockMutNever(e, variance) == e

(* lines 99-103: a lock on Plank follows the movement of the shoulders *)
DynamicUnlock(e, variance) ==
    IF e.lockedExercise = "Plank" /\ variance > MovementThreshold
    THEN [e EXCEPT !.lockedExercise = "Push Up"]
    ELSE e

PendingMutAnalyzes(e, detected, f, timestamp, dateNow) ==
    [eng |-> Analyze(e, detected, f, timestamp, dateNow).eng,
     fb |-> Detecting(e.potentialExercise, detected)]

(* lines 165-175: the run has not exceeded the threshold; the frame goes   *)
(* to no analyzer                                                          *)
Pending(e, detected, f, timestamp, dateNow) ==
    [eng |-> e, fb |-> Detecting(e.potentialExercise, detected)]

(* lines 106-185: the unlocked branch of Auto-Detect *)
Detect(e, variance, f, timestamp, dateNow) ==
    LET classified == classifyExercise(f)
        counted == IF classified = e.potentialExercise
                   THEN [e EXCEPT !.consecutiveFrames = @ + 1]
                   ELSE [e EXCEPT !.potentialExercise = classified,
                                  !.consecutiveFrames = 1]
        moving == classified \in {"Plank", "Push Up"} /\ variance > MovementThreshold
        detected == IF moving THEN "Push Up" ELSE classified
        lockThreshold == IF moving THEN 4 ELSE LockThreshold(classified)
        boosted == IF moving /\ counted.potentialExercise = "Push Up"
                   THEN [counted EXCEPT !.consecutiveFrames = @ + 2]
                   ELSE counted
        locked == [boosted EXCEPT !.lockedExercise = detected, !.isLocked = TRUE]
        primed == IF detected = "Plank"
                  THEN [locked EXCEPT
                          !.plank = setElapsedTime(@, (lockThreshold * 1000) \div 6)]
                  ELSE locked
    IN IF classified = none THEN [eng |-> e, fb |-> Scanning]
       ELSE IF Locks(boosted.consecutiveFrames, lockThreshold)
            THEN Route(primed, detected, f, timestamp, dateNow)
            ELSE Pending(boosted, detected, f, timestamp, dateNow)

(* analyzeFrame(landmarks, timestamp): the engine after the call and what  *)
(* the call returned                                                       *)
analyzeFrame(e, f, timestamp, dateNow) ==
    IF NoLandmarks(f) THEN [eng |-> e, fb |-> NoPoseDetected]
    ELSE IF ReadsPastEnd({11, 12}, f.len) THEN [eng |-> e, fb |-> Thrown]
    ELSE
    LET tracked == [e EXCEPT !.shoulderHistory = PushShoulder(@, f.shoulderY)]
        variance == Spread(tracked.shoulderHistory)
    IN IF tracked.currentExercise # AutoDetect
       THEN Route(tracked, tracked.currentExercise, f, timestamp, dateNow)
       ELSE IF tracked.isLocked /\ tracked.lockedExercise # none
            THEN LET followed == DynamicUnlock(tracked, variance)
                 IN Route(followed, followed.lockedExercise, f, timestamp, dateNow)
            ELSE Detect(tracked, variance, f, timestamp, dateNow)

getRepTimestampsOf(e, ex) ==
    IF ex = "Plank" THEN <<>>
    ELSE IF ex = "Russian Twist" THEN e.twist.repTimestamps
    ELSE e.counters[ex].repTimestamps

getRepTimestamps(e) ==
    IF e.currentExercise = AutoDetect /\ e.lockedExercise # none
    THEN getRepTimestampsOf(e, e.lockedExercise)
    ELSE getRepTimestampsOf(e, e.currentExercise)

(* const FRAME_INTERVAL_MS of the video analysis loop *)
FrameIntervalMs == 333

-----------------------------------------------------------------------------
(* Frames fed to the engine *)

(* a full frame of a person standing still in good form *)
FullFrame ==
    [ len |-> 33, cls |-> none, shoulderY |-> 50,
      completion |-> 0, total |-> 9000, flagged |-> FALSE,
      leftSide |-> TRUE, hipAngle |-> 180, sagging |-> FALSE, kneeAngle |-> 180,
      xOffset |-> 0, shoulderWidth |-> 20 ]

(* the array is missing (len = null) or holds fewer than 33 landmarks *)
ShortFrame(len, leftSide) == [FullFrame EXCEPT !.len = len, !.leftSide = leftSide]

(* three poses of a repetition: at rest, half way, at the peak; the wrists *)
(* swing across the hips with the movement                                 *)
PoseFrames ==
    { [FullFrame EXCEPT !.completion = 0, !.xOffset = 15],
      [FullFrame EXCEPT !.completion = 45, !.xOffset = 0, !.total = 7000],
      [FullFrame EXCEPT !.completion = 100, !.xOffset = -15, !.hipAngle = 160] }

NoFeedback == Feedback(0, 0, none, none, FALSE, none)
NoInput == [len |-> null, timestamp |-> null]

-----------------------------------------------------------------------------
(* Observer of a detection run in Auto-Detect mode: the label of the       *)
(* frames fed since the mode was entered, how many of them came before the *)
(* lock, and whether the shoulders kept still.                             *)

NoRun ==
    [ pure |-> TRUE, runEx |-> none, runLen |-> 0,
      stillRun |-> TRUE, still |-> TRUE, mismatch |-> FALSE ]
BrokenRun == [NoRun EXCEPT !.pure = FALSE]

ObserveRun(o, before, after, cls) ==
    LET quiet == Spread(after.shoulderHistory) <= MovementThreshold
    IN IF before.currentExercise # AutoDetect \/ ~o.pure THEN o
       ELSE IF before.isLocked
            THEN [o EXCEPT !.still = @ /\ quiet, !.mismatch = (cls # o.runEx)]
       ELSE IF cls = none
            THEN (IF o.runLen = 0 THEN o ELSE BrokenRun)
       ELSE IF o.runLen = 0
            THEN [o EXCEPT !.runEx = cls, !.runLen = 1,
                           !.stillRun = quiet, !.still = quiet]
       ELSE IF cls = o.runEx
            THEN [o EXCEPT !.runLen = @ + 1,
                           !.stillRun = @ /\ quiet, !.still = @ /\ quiet]
       ELSE BrokenRun

(* the shoulders rest at height 0.50 and leave it for one burst of at most *)
(* MaxBurst consecutive frames at height 0.56                              *)
ShoulderHeights(b) ==
    {50} \cup (IF ~b.over /\ b.moved < MaxBurst THEN {56} ELSE {})

BurstNext(b, y) ==
    IF y # 50 THEN [b EXCEPT !.moved = @ + 1]
    ELSE IF b.moved > 0 THEN [b EXCEPT !.over = TRUE] ELSE b

LockModes == {AutoDetect, "Squat"}

(* labels the classifier gives the frames of a detection run: Plank and    *)
(* Push Up, which the movement check tells apart, and one exercise of each *)
(* other lock threshold                                                    *)
LockLabels == {"Plank", "Push Up", "Russian Twist", "Pull Up", "Squat"}

-----------------------------------------------------------------------------
(* Observer of a session: the baseline given to setRecordingStartTime, the *)
(* timestamps of the frames since, and for the analyzer whose repetitions  *)
(* getRepTimestamps() reports the frame on which the repetition under way  *)
(* left rest and the frame on which it reached its peak.                   *)

NoRep == [start |-> null, mid |-> null, end |-> null]

NoSession ==
    [ frames |-> 0, switches |-> 0, baseline |-> null, tracking |-> TRUE,
      target |-> none, startTs |-> null, peakTs |-> null, times |-> {},
      rep |-> NoRep, videoTime |-> 0 ]

(* the exercise whose analyzer getRepTimestamps() asks *)
ReportedExercise(e) ==
    IF e.currentExercise = AutoDetect /\ e.lockedExercise # none
    THEN e.lockedExercise ELSE e.currentExercise

LeftRest(mode, prev, next) ==
    IF mode = "EccentricFirst"
    THEN prev \in {"Rest", "Top"} /\ next = "Eccentric"
    ELSE prev \in {"Rest", "Bottom"} /\ next = "Concentric"

ReachedPeak(mode, prev, next) ==
    IF mode = "EccentricFirst"
    THEN prev = "Eccentric" /\ next = "Bottom"
    ELSE prev = "Concentric" /\ next = "Top"

ObserveSession(s, before, after, timestamp) ==
    LET target == ReportedExercise(after)
        counter == target \in CounterExercises
        mode == after.counters[target].mode
        prev == before.counters[target].currentPhase
        next == after.counters[target].currentPhase
        old == getRepTimestampsOf(before, target)
        new == getRepTimestampsOf(after, target)
    IN [s EXCEPT
          !.frames = @ + 1,
          !.tracking = /\ @
                       /\ timestamp # null
                       /\ s.target \in {none, AutoDetect, "Plank", target},
          !.target = target,
          !.startTs = IF counter /\ LeftRest(mode, prev, next) THEN timestamp ELSE @,
          !.peakTs = IF counter /\ ReachedPeak(mode, prev, next) THEN timestamp ELSE @,
          !.times = IF timestamp # null THEN @ \cup {timestamp} ELSE @,
          !.rep = IF Len(new) > Len(old) THEN new[Len(new)] ELSE NoRep,
          !.videoTime = IF timestamp = @ THEN @ + FrameIntervalMs ELSE @]

(* a still frame the classifier labels Pull Up, and arrays that are       *)
(* missing, empty or short                                                 *)
EngineFrames ==
    {[FullFrame EXCEPT !.cls = "Pull Up"]}
    \cup {ShortFrame(len, TRUE) : len \in {null, 0, 5, 20, 30}}

SessionExercises == {"Squat", "Pull Up", "Russian Twist", "Plank"}

PairExercises == {"Squat", "Plank", "Russian Twist"}
PairFrames == PoseFrames \cup {ShortFrame(0, TRUE)}

AnalyzerFrames ==
    PoseFrames
    \cup {ShortFrame(0, TRUE), ShortFrame(24, TRUE), ShortFrame(28, TRUE),
          ShortFrame(28, FALSE), ShortFrame(32, TRUE)}

CanonicalEmpty(x) ==
    /\ ~x.threw
    /\ x.score = 0
    /\ x.reps = 0
    /\ x.repPhase = "Rest"
    /\ x.message = "No Pose"
    /\ ~x.isGoodForm

(* an object the run does not construct *)
Absent == [constructed |-> FALSE]

NoObs == [since |-> null]

AuxIdle ==
    /\ obs = NoObs
    /\ rcMirror = Absent

SideIdle ==
    /\ scorer = Absent
    /\ pillars = Absent
    /\ upload = Absent

PairIdle ==
    /\ eng2 = Absent
    /\ fb2 = NoFeedback
    /\ wall2 = WallEpoch

EngineIdle ==
    /\ eng = Absent
    /\ fb = NoFeedback
    /\ inp = NoInput
    /\ run = NoRun
    /\ burst = [moved |-> 0, over |-> FALSE]
    /\ sess = NoSession
    /\ label = none
    /\ PairIdle

-----------------------------------------------------------------------------
(* The wall clock: Date.now() never runs backwards *)

WallNext == {w \in {wall, wall + WallStep} : w <= WallEpoch + MaxWallSteps * WallStep}

(* the clock when WallStep has passed since the last frame *)
WallTick == MaxOf(WallNext)

-----------------------------------------------------------------------------
(* Observer of the completion signal fed to rc.  A cycle of the signal:    *)
(* it rises above thresholdLow ("R"), reaches at least thresholdHigh       *)
(* ("H"), and returns to at most thresholdLow ("L", one more cycle).       *)

(* Completion samples around the thresholds of a counter: every band the   *)
(* guards of update() tell apart holds one                                 *)
Samples(c) ==
    {0, c.thresholdLow - 5, c.thresholdLow, c.thresholdLow + 2,
     c.thresholdHigh - Deadband, c.thresholdHigh - 5, c.thresholdHigh,
     c.thresholdHigh + 5, 100}
(* a timestamp of the caller, or none: update() then reads Date.now() *)
RepTimes == {333, null}

RefNext(state, s, low, high) ==
    CASE state = "L" -> IF s >= high THEN "H" ELSE IF s > low THEN "R" ELSE "L"
      [] state = "R" -> IF s >= high THEN "H" ELSE IF s <= low THEN "L" ELSE "R"
      [] state = "H" -> IF s <= low THEN "L" ELSE "H"

RefCompletes(state, s, low) == state = "H" /\ s <= low

(* two adjacent samples on opposite sides of both thresholds *)
CrossesBoth(a, b, low, high) ==
    a # null /\ ((a <= low /\ b >= high) \/ (a >= high /\ b <= low))

(* a sample that skips a band the counter needs a sample in: the rise from *)
(* rest (a fresh counter is at rest) to the peak without a sample strictly *)
(* between the thresholds, or the return from thresholdHigh - 0.1 or above *)
(* to rest without a sample strictly between thresholdLow and that level   *)
SkipsBand(a, b, low, high) ==
    \/ (a = null \/ a <= low) /\ b >= high
    \/ a # null /\ a >= high - Deadband /\ b <= low

-----------------------------------------------------------------------------
(* One RepCounter driven by arbitrary calls *)

(* the other value of the constructor's mode parameter *)
OtherMode(mode) ==
    IF mode = "EccentricFirst" THEN "ConcentricFirst" ELSE "EccentricFirst"

InitRep ==
    /\ SideIdle
    /\ \E cfg \in CounterConfigs :
          /\ rc = NewRepCounter(cfg[1], cfg[2], cfg[3])
          /\ rcMirror = NewRepCounter(OtherMode(cfg[1]), cfg[2], cfg[3])
    /\ obs = NoObs
    /\ lastOp = "new"
    /\ refState = "L"
    /\ refCount = 0
    /\ lastSample = null
    /\ crossed = FALSE
    /\ skipped = FALSE
    /\ script = <<>>
    /\ pos = 0
    /\ fedTimes = <<>>
    /\ phaseTrace = <<>>
    /\ wall = WallEpoch
    /\ EngineIdle

Update ==
    /\ rc.count < MaxReps
    /\ refCount <= MaxReps
    /\ \E completion \in Samples(rc), timestamp \in RepTimes :
          /\ rc' = update(rc, completion, timestamp, wall)
          /\ rcMirror' = update(rcMirror, completion, timestamp, wall)
          /\ refState' = RefNext(refState, completion, rc.thresholdLow, rc.thresholdHigh)
          /\ refCount' = IF RefCompletes(refState, completion, rc.thresholdLow)
                         THEN refCount + 1 ELSE refCount
          /\ crossed' = (crossed \/ CrossesBoth(lastSample, completion,
                                                rc.thresholdLow, rc.thresholdHigh))
          /\ skipped' = (skipped \/ SkipsBand(lastSample, completion,
                                              rc.thresholdLow, rc.thresholdHigh))
          /\ lastSample' = completion
    /\ lastOp' = "update"
    /\ UNCHANGED <<scriptVars, wall, engVars, pairVars, obs, sideVars>>

Reset ==
    /\ rc' = resetRC(rc)
    /\ rcMirror' = resetRC(rcMirror)
    /\ lastOp' = "reset"
    /\ refState' = "L"
    /\ refCount' = 0
    /\ lastSample' = null
    /\ crossed' = FALSE
    /\ skipped' = FALSE
    /\ UNCHANGED <<scriptVars, wall, engVars, pairVars, obs, sideVars>>

NextRep == Update \/ Reset

SpecRep == InitRep /\ [][NextRep]_vars

-----------------------------------------------------------------------------
(* A fresh EccentricFirst counter fed a scripted completion sequence at    *)
(* increasing timestamps                                                   *)

FalseStartScript == <<40, 20, 40, 60, 20>>
(* the same, followed by one more sample at rest *)
FalseStartScriptDone == {FalseStartScript \o <<done>> : done \in {0, 20, 35}}
OneRepScript == <<0, 40, 60, 60, 30, 10>>
OneRepPhases == <<"Rest", "Eccentric", "Bottom", "Bottom", "Concentric", "Top">>

Runs(S) == UNION {[1..n -> S] : n \in 1..MaxRun}

(* rest, one sample between the thresholds, a run at the peak, one sample  *)
(* between thresholdLow and thresholdHigh - 0.1, one sample at rest        *)
OneRepFamily(c) ==
    LET low == c.thresholdLow
        high == c.thresholdHigh
    IN { rest \o <<rise>> \o peak \o <<back>> \o <<done>> :
            rest \in Runs({0, low}),
            rise \in {low + 2, high - 5},
            peak \in Runs({high, high + 5}),
            back \in {s \in {low + 2, low + 5} : s < high - Deadband},
            done \in {0, low} }

FamilyPhases(s, c) ==
    [i \in 1..Len(s) |->
        IF i = Len(s) THEN "Top"
        ELSE IF i = Len(s) - 1 THEN "Concentric"
        ELSE IF s[i] >= c.thresholdHigh THEN "Bottom"
        ELSE IF s[i] > c.thresholdLow THEN "Eccentric"
        ELSE "Rest"]

Scripts(c) ==
    OneRepFamily(c) \cup
    (IF c.thresholdLow = DefaultThresholdLow /\ c.thresholdHigh = DefaultThresholdHigh
     THEN {FalseStartScript, OneRepScript} \cup FalseStartScriptDone ELSE {})

(* the offline loop samples the video every FRAME_INTERVAL_MS, and skips   *)
(* the frames in which no pose is found                                    *)

(* the family of C8, by the shape of the sequence: k samples at rest, one  *)
(* between the thresholds, m at the peak, one between thresholdLow and     *)
(* thresholdHigh - 0.1, one at rest                                        *)
IsOneRepShape(s, c) ==
    \E k \in 1..Len(s), m \in 1..Len(s) :
        /\ Len(s) = k + m + 3
        /\ \A i \in 1..k : s[i] <= c.thresholdLow
        /\ s[k + 1] > c.thresholdLow /\ s[k + 1] < c.thresholdHigh
        /\ \A i \in (k + 2)..(k + m + 1) : s[i] >= c.thresholdHigh
        /\ s[k + m + 2] > c.thresholdLow
        /\ s[k + m + 2] < c.thresholdHigh - Deadband
        /\ s[k + m + 3] <= c.thresholdLow

InitScript ==
    /\ SideIdle
    /\ \E cfg \in {g \in CounterConfigs : g[1] = "EccentricFirst"} :
          rc = NewRepCounter(cfg[1], cfg[2], cfg[3])
    /\ script \in Scripts(rc)
    /\ pos = 0
    /\ fedTimes = <<>>
    /\ phaseTrace = <<>>
    /\ lastOp = "new"
    /\ refState = "L"
    /\ refCount = 0
    /\ lastSample = null
    /\ crossed = FALSE
    /\ skipped = FALSE
    /\ wall = WallEpoch
    /\ EngineIdle
    /\ AuxIdle

Feed ==
    /\ pos < Len(script)
    /\ \E timestamp \in (IF pos = 0 THEN {0, FrameIntervalMs, 2 * FrameIntervalMs}
                          ELSE {fedTimes[pos] + FrameIntervalMs}) :
          /\ rc' = update(rc, script[pos + 1], timestamp, wall)
          /\ fedTimes' = Append(fedTimes, timestamp)
    /\ phaseTrace' = Append(phaseTrace, rc'.currentPhase)
    /\ pos' = pos + 1
    /\ lastOp' = "update"
    /\ UNCHANGED <<refState, refCount, lastSample, crossed, skipped, script, wall, engVars, pairVars, auxVars, sideVars>>

NextScript == Feed

SpecScript == InitScript /\ [][NextScript]_vars

-----------------------------------------------------------------------------
(* The engine in Auto-Detect and manual mode, fed full frames of any label *)

RepIdle ==
    /\ rc = Absent
    /\ lastOp = "new"
    /\ refState = "L"
    /\ refCount = 0
    /\ lastSample = null
    /\ crossed = FALSE
    /\ skipped = FALSE
    /\ script = <<>>
    /\ pos = 0
    /\ fedTimes = <<>>
    /\ phaseTrace = <<>>

InitLock ==
    /\ SideIdle
    /\ RepIdle
    /\ wall = WallEpoch
    /\ eng = NewEngine(wall)
    /\ fb = NoFeedback
    /\ inp = NoInput
    /\ run = NoRun
    /\ burst = [moved |-> 0, over |-> FALSE]
    /\ sess = NoSession
    /\ label = none
    /\ PairIdle
    /\ AuxIdle

LockSetExercise ==
    /\ \E exercise \in LockModes : eng' = setExercise(eng, exercise)
    /\ run' = NoRun
    /\ fb' = NoFeedback
    /\ inp' = NoInput
    /\ lastOp' = "setExercise"
    /\ UNCHANGED <<rc, refState, refCount, lastSample, crossed, skipped, scriptVars,
                   wall, burst, sess, label, pairVars, auxVars, sideVars>>

LockAnalyzeFrame ==
    /\ \E cls \in LockLabels \cup {none}, y \in ShoulderHeights(burst) :
          LET f == [FullFrame EXCEPT !.cls = cls, !.shoulderY = y]
              r == analyzeFrame(eng, f, null, wall)
          IN /\ eng' = r.eng
             /\ fb' = r.fb
             /\ run' = ObserveRun(run, eng, r.eng, cls)
             /\ burst' = BurstNext(burst, y)
             /\ inp' = [len |-> f.len, timestamp |-> null]
    /\ lastOp' = "analyzeFrame"
    /\ UNCHANGED <<rc, refState, refCount, lastSample, crossed, skipped, scriptVars,
                   wall, sess, label, pairVars, auxVars, sideVars>>

NextLock == LockSetExercise \/ LockAnalyzeFrame

SpecLock == InitLock /\ [][NextLock]_vars

-----------------------------------------------------------------------------
(* The engine driven through its interface by frames of any length, in any *)
(* mode, while the clock runs: a camera that loses the pose                *)

InitEngine ==
    /\ SideIdle
    /\ RepIdle
    /\ wall = WallEpoch
    /\ eng = NewEngine(wall)
    /\ fb = NoFeedback
    /\ inp = NoInput
    /\ run = NoRun
    /\ burst = [moved |-> 0, over |-> FALSE]
    /\ sess = NoSession
    /\ label = none
    /\ PairIdle
    /\ AuxIdle

EngSetExercise ==
    /\ sess.switches < MaxSwitches
    /\ \E exercise \in ExerciseType : eng' = setExercise(eng, exercise)
    /\ sess' = [sess EXCEPT !.switches = @ + 1]
    /\ fb' = NoFeedback
    /\ inp' = NoInput
    /\ lastOp' = "setExercise"
    /\ UNCHANGED <<rc, refState, refCount, lastSample, crossed, skipped, scriptVars,
                   wall, run, burst, label, pairVars, auxVars, sideVars>>

EngAnalyzeFrame ==
    /\ sess.frames < MaxFrames
    /\ \E f \in EngineFrames :
          LET r == analyzeFrame(eng, f, null, WallTick)
          IN /\ eng' = r.eng
             /\ fb' = r.fb
             /\ inp' = [len |-> f.len, timestamp |-> null]
    /\ sess' = [sess EXCEPT !.frames = @ + 1]
    /\ wall' = WallTick
    /\ lastOp' = "analyzeFrame"
    /\ UNCHANGED <<rc, refState, refCount, lastSample, crossed, skipped, scriptVars,
                   run, burst, label, pairVars, auxVars, sideVars>>

NextEngine == EngSetExercise \/ EngAnalyzeFrame

SpecEngine == InitEngine /\ [][NextEngine]_vars

-----------------------------------------------------------------------------
(* A recording session: an exercise is selected, the baseline of the       *)
(* recording is given, and frames of a movement arrive with timestamps of  *)
(* the video timeline or of the caller's clock                             *)

(* the frames of a session are all stamped from the video timeline, which  *)
(* starts at 0, or all from the caller's clock                             *)
SessionTimes(s, dateNow) ==
    IF s.frames = 0 THEN {s.videoTime, dateNow}
    ELSE IF s.videoTime > 0 THEN {s.videoTime}
    ELSE {dateNow}

SessSetExercise ==
    /\ sess.frames = 0
    /\ sess.switches < MaxSwitches
    /\ \E exercise \in SessionExercises : eng' = setExercise(eng, exercise)
    /\ sess' = [sess EXCEPT !.switches = @ + 1]
    /\ fb' = NoFeedback
    /\ inp' = NoInput
    /\ lastOp' = "setExercise"
    /\ UNCHANGED <<rc, refState, refCount, lastSample, crossed, skipped, scriptVars,
                   wall, run, burst, label, pairVars, auxVars, sideVars>>

SessSetRecordingStartTime ==
    /\ sess.baseline = null
    /\ \E timestamp \in {0, FrameIntervalMs, wall} :
          /\ eng' = setRecordingStartTime(eng, timestamp)
          /\ sess' = [sess EXCEPT !.baseline = timestamp,
                                  !.tracking = @ /\ sess.frames = 0]
    /\ fb' = NoFeedback
    /\ inp' = NoInput
    /\ lastOp' = "setRecordingStartTime"
    /\ UNCHANGED <<rc, refState, refCount, lastSample, crossed, skipped, scriptVars,
                   wall, run, burst, label, pairVars, auxVars, sideVars>>

SessAnalyzeFrame ==
    /\ sess.frames < MaxSessionFrames
    /\ \E f \in PoseFrames, timestamp \in SessionTimes(sess, WallTick) :
          LET r == analyzeFrame(eng, f, timestamp, WallTick)
          IN /\ eng' = r.eng
             /\ fb' = r.fb
             /\ sess' = ObserveSession(sess, eng, r.eng, timestamp)
             /\ inp' = [len |-> f.len, timestamp |-> timestamp]
    /\ wall' = WallTick
    /\ lastOp' = "analyzeFrame"
    /\ UNCHANGED <<rc, refState, refCount, lastSample, crossed, skipped, scriptVars,
                   run, burst, label, pairVars, auxVars, sideVars>>

NextSession == SessSetExercise \/ SessSetRecordingStartTime \/ SessAnalyzeFrame

SpecSession == InitEngine /\ [][NextSession]_vars

-----------------------------------------------------------------------------
(* One analyzer, and the classifier, called directly *)

InitAnalyzers ==
    /\ SideIdle
    /\ RepIdle
    /\ wall = WallEpoch
    /\ eng = NewEngine(wall)
    /\ fb = NoFeedback
    /\ inp = NoInput
    /\ run = NoRun
    /\ burst = [moved |-> 0, over |-> FALSE]
    /\ \E exercise \in Exercises : sess = [NoSession EXCEPT !.target = exercise]
    /\ label = none
    /\ PairIdle
    /\ AuxIdle

CallAnalyze ==
    /\ sess.frames < MaxCalls
    /\ \E f \in AnalyzerFrames, timestamp \in {null, sess.videoTime} :
          LET r == Analyze(eng, sess.target, f, timestamp, WallTick)
          IN /\ eng' = r.eng
             /\ fb' = r.fb
             /\ inp' = [len |-> f.len, timestamp |-> timestamp]
             /\ sess' = [sess EXCEPT
                           !.frames = @ + 1,
                           !.videoTime = IF timestamp = @
                                         THEN @ + FrameIntervalMs ELSE @]
    /\ wall' = WallTick
    /\ lastOp' = "analyze"
    /\ UNCHANGED <<rc, refState, refCount, lastSample, crossed, skipped, scriptVars,
                   run, burst, label, pairVars, auxVars, sideVars>>

CallClassify ==
    /\ sess.frames < MaxCalls
    /\ \E f \in AnalyzerFrames, cls \in {sess.target, none} :
          /\ label' = classifyExercise([f EXCEPT !.cls = cls])
          /\ inp' = [len |-> f.len, timestamp |-> null]
    /\ sess' = [sess EXCEPT !.frames = @ + 1]
    /\ fb' = NoFeedback
    /\ lastOp' = "classifyExercise"
    /\ UNCHANGED <<rc, refState, refCount, lastSample, crossed, skipped, scriptVars,
                   wall, eng, run, burst, pairVars, auxVars, sideVars>>

NextAnalyzers == CallAnalyze \/ CallClassify

SpecAnalyzers == InitAnalyzers /\ [][NextAnalyzers]_vars

-----------------------------------------------------------------------------
(* Two engines given the same calls, with timestamps of a video timeline   *)
(* that starts at 0, each under its own clock                              *)

WallNext2 ==
    {w \in {wall2, wall2 + WallStep} : w <= WallEpoch + (MaxWallSteps + 1) * WallStep}

InitPair ==
    /\ SideIdle
    /\ RepIdle
    /\ wall = WallEpoch
    /\ wall2 = WallEpoch + WallStep
    /\ eng = NewEngine(wall)
    /\ eng2 = NewEngine(wall2)
    /\ fb = NoFeedback
    /\ fb2 = NoFeedback
    /\ inp = NoInput
    /\ run = NoRun
    /\ burst = [moved |-> 0, over |-> FALSE]
    /\ sess = NoSession
    /\ label = none
    /\ AuxIdle

PairSetExercise ==
    /\ sess.switches < MaxSwitches
    /\ \E exercise \in PairExercises :
          /\ eng' = setExercise(eng, exercise)
          /\ eng2' = setExercise(eng2, exercise)
    /\ sess' = [sess EXCEPT !.switches = @ + 1]
    /\ fb' = NoFeedback
    /\ fb2' = NoFeedback
    /\ inp' = NoInput
    /\ lastOp' = "setExercise"
    /\ UNCHANGED <<rc, refState, refCount, lastSample, crossed, skipped, scriptVars,
                   wall, wall2, run, burst, label, auxVars, sideVars>>

PairSetRecordingStartTime ==
    /\ sess.baseline = null
    /\ \E timestamp \in {0, FrameIntervalMs} :
          /\ eng' = setRecordingStartTime(eng, timestamp)
          /\ eng2' = setRecordingStartTime(eng2, timestamp)
          /\ sess' = [sess EXCEPT !.baseline = timestamp]
    /\ fb' = NoFeedback
    /\ fb2' = NoFeedback
    /\ inp' = NoInput
    /\ lastOp' = "setRecordingStartTime"
    /\ UNCHANGED <<rc, refState, refCount, lastSample, crossed, skipped, scriptVars,
                   wall, wall2, run, burst, label, auxVars, sideVars>>

PairAnalyzeFrame ==
    /\ sess.frames < MaxPairFrames
    /\ \E f \in PairFrames, dateNow \in WallNext, dateNow2 \in WallNext2 :
          LET timestamp == sess.videoTime
              r == analyzeFrame(eng, f, timestamp, dateNow)
              r2 == analyzeFrame(eng2, f, timestamp, dateNow2)
          IN /\ eng' = r.eng
             /\ fb' = r.fb
             /\ eng2' = r2.eng
             /\ fb2' = r2.fb
             /\ inp' = [len |-> f.len, timestamp |-> timestamp]
             /\ wall' = dateNow
             /\ wall2' = dateNow2
    /\ sess' = [sess EXCEPT !.frames = @ + 1, !.videoTime = @ + FrameIntervalMs]
    /\ lastOp' = "analyzeFrame"
    /\ UNCHANGED <<rc, refState, refCount, lastSample, crossed, skipped, scriptVars,
                   run, burst, label, auxVars, sideVars>>

NextPair == PairSetExercise \/ PairSetRecordingStartTime \/ PairAnalyzeFrame

SpecPair == InitPair /\ [][NextPair]_vars

-----------------------------------------------------------------------------
(* A session in which the selected exercise is switched between frames of  *)
(* a movement, the frames stamped from the video timeline                  *)

MaxSwitchFrames == 5
MaxExerciseSwitches == 2

SwitchExercises == {"Squat", "Pull Up"}

SwitchSetExercise ==
    /\ sess.switches < MaxExerciseSwitches
    /\ \E exercise \in SwitchExercises : eng' = setExercise(eng, exercise)
    /\ sess' = [sess EXCEPT !.switches = @ + 1]
    /\ fb' = NoFeedback
    /\ inp' = NoInput
    /\ lastOp' = "setExercise"
    /\ UNCHANGED <<rc, refState, refCount, lastSample, crossed, skipped, scriptVars,
                   wall, run, burst, label, pairVars, auxVars, sideVars>>

SwitchAnalyzeFrame ==
    /\ sess.frames < MaxSwitchFrames
    /\ \E f \in PoseFrames :
          LET r == analyzeFrame(eng, f, sess.videoTime, wall)
          IN /\ eng' = r.eng
             /\ fb' = r.fb
             /\ sess' = ObserveSession(sess, eng, r.eng, sess.videoTime)
             /\ inp' = [len |-> f.len, timestamp |-> sess.videoTime]
    /\ lastOp' = "analyzeFrame"
    /\ UNCHANGED <<rc, refState, refCount, lastSample, crossed, skipped, scriptVars,
                   wall, run, burst, label, pairVars, auxVars, sideVars>>

NextSwitch == SwitchSetExercise \/ SwitchAnalyzeFrame

SpecSwitch == InitEngine /\ [][NextSwitch]_vars

-----------------------------------------------------------------------------
(* The PlankAnalyzer called frame by frame while the clock runs.  obs.since *)
(* is the clock at the first frame of the unbroken run of frames with      *)
(* acceptable form the last frame belongs to, null when that frame had bad *)
(* form or no frame was analysed yet.                                      *)

PlankFrames ==
    {FullFrame,
     [FullFrame EXCEPT !.hipAngle = 160],
     [FullFrame EXCEPT !.sagging = TRUE],
     [FullFrame EXCEPT !.kneeAngle = 150]}

MaxPlankFrames == 5

(* Date.now() at the next frame: one or two steps of the clock later, or   *)
(* within the same millisecond                                             *)
PlankClock ==
    {w \in {wall, wall + WallStep, wall + 2 * WallStep} :
        w <= WallEpoch + MaxWallSteps * WallStep}

ObserveHold(o, good, now) ==
    [since |-> IF ~good THEN null ELSE IF o.since = null THEN now ELSE o.since]

InitPlank ==
    /\ SideIdle
    /\ RepIdle
    /\ wall = WallEpoch
    /\ eng = NewEngine(wall)
    /\ fb = NoFeedback
    /\ inp = NoInput
    /\ run = NoRun
    /\ burst = [moved |-> 0, over |-> FALSE]
    /\ sess = [NoSession EXCEPT !.target = "Plank"]
    /\ label = none
    /\ PairIdle
    /\ AuxIdle

PlankFrame ==
    /\ sess.frames < MaxPlankFrames
    /\ \E f \in PlankFrames, now \in PlankClock :
          LET r == Analyze(eng, "Plank", f, null, now)
          IN /\ eng' = r.eng
             /\ fb' = r.fb
             /\ inp' = [len |-> f.len, timestamp |-> null]
             /\ obs' = ObserveHold(obs, r.fb.isGoodForm, now)
             /\ wall' = now
    /\ sess' = [sess EXCEPT !.frames = @ + 1]
    /\ lastOp' = "analyze"
    /\ UNCHANGED <<rc, refState, refCount, lastSample, crossed, skipped, scriptVars,
                   run, burst, label, pairVars, rcMirror, sideVars>>

NextPlank == PlankFrame

SpecPlank == InitPlank /\ [][NextPlank]_vars

-----------------------------------------------------------------------------
(* The RussianTwistAnalyzer called frame by frame, by the camera (no       *)
(* timestamp: the analyzer reads the clock) or along a video timeline.     *)
(* obs observes the run: at is the time of the last frame (its timestamp,  *)
(* or the clock when it has none), lastRepAt the time of the frame of the  *)
(* last counted rep, signs the sides of the hips the wrists were seen on   *)
(* since that frame, that frame included.                                  *)

MaxTwistFrames == 5
MaxTwistSteps == 6

TwistOffsets == {-15, 0, 8, 15}

TwistFrames == {[FullFrame EXCEPT !.xOffset = x] : x \in TwistOffsets}

(* Date.now() at the next frame *)
TwistClock ==
    {w \in {wall + WallStep, wall + 2 * WallStep} :
        w <= WallEpoch + MaxTwistSteps * WallStep}

Side(x) == IF x > 0 THEN {1} ELSE IF x < 0 THEN {-1} ELSE {}

NoTwistObs(live) ==
    [live |-> live, at |-> null, lastRepAt |-> null, signs |-> {}, width |-> null]

ObserveTwist(o, before, after, f, at) ==
    [o EXCEPT !.at = at,
              !.lastRepAt = IF after.repCount > before.repCount THEN at ELSE @,
              !.signs = IF after.repCount > before.repCount
                        THEN Side(f.xOffset) ELSE @ \cup Side(f.xOffset),
              !.width = f.shoulderWidth]

InitTwist ==
    /\ SideIdle
    /\ RepIdle
    /\ wall = WallEpoch
    /\ eng = NewEngine(wall)
    /\ fb = NoFeedback
    /\ inp = NoInput
    /\ run = NoRun
    /\ burst = [moved |-> 0, over |-> FALSE]
    /\ sess = [NoSession EXCEPT !.target = "Russian Twist"]
    /\ label = none
    /\ PairIdle
    /\ \E live \in BOOLEAN : obs = NoTwistObs(live)
    /\ rcMirror = Absent

TwistFrame ==
    /\ sess.frames < MaxTwistFrames
    /\ TwistClock # {}
    /\ \E f \in TwistFrames, now \in TwistClock :
          LET timestamp == IF obs.live THEN null ELSE sess.videoTime
              r == Analyze(eng, "Russian Twist", f, timestamp, now)
          IN /\ eng' = r.eng
             /\ fb' = r.fb
             /\ inp' = [len |-> f.len, timestamp |-> timestamp]
             /\ obs' = ObserveTwist(obs, eng.twist, r.eng.twist, f,
                                    IF obs.live THEN now ELSE timestamp)
             /\ wall' = now
    /\ sess' = [sess EXCEPT !.frames = @ + 1,
                            !.videoTime = IF obs.live THEN @ ELSE @ + FrameIntervalMs]
    /\ lastOp' = "analyze"
    /\ UNCHANGED <<rc, refState, refCount, lastSample, crossed, skipped, scriptVars,
                   run, burst, label, pairVars, rcMirror, sideVars>>

NextTwist == TwistFrame

SpecTwist == InitTwist /\ [][NextTwist]_vars

-----------------------------------------------------------------------------
(* Auto-Detect fed frames some of which the classifier does not label.     *)
(* Observer: the label of the latest frame fed while unlocked and the      *)
(* number of frames in a row, up to and including it, that the classifier  *)
(* gave that label; a frame without a label leaves no run.                 *)

MaxStreakFrames == 7

(* one label of each lock threshold; the shoulders stay at height 0.50, so *)
(* that the movement check never acts                                      *)
StreakLabels == {"Pull Up", "Squat", "Russian Twist", "Plank"}

NoStreak == [label |-> none, len |-> 0, frames |-> 0]

ObserveStreak(o, before, cls) ==
    LET fed == [o EXCEPT !.frames = @ + 1]
    IN IF before.currentExercise # AutoDetect \/ before.isLocked THEN fed
       ELSE IF cls = none THEN [fed EXCEPT !.label = none, !.len = 0]
       ELSE IF cls = o.label THEN [fed EXCEPT !.len = @ + 1]
       ELSE [fed EXCEPT !.label = cls, !.len = 1]

InitStreak ==
    /\ SideIdle
    /\ RepIdle
    /\ wall = WallEpoch
    /\ eng = NewEngine(wall)
    /\ fb = NoFeedback
    /\ inp = NoInput
    /\ run = NoRun
    /\ burst = [moved |-> 0, over |-> FALSE]
    /\ sess = NoSession
    /\ label = none
    /\ PairIdle
    /\ obs = NoStreak
    /\ rcMirror = Absent

StreakSetExercise ==
    /\ eng' = setExercise(eng, AutoDetect)
    /\ obs' = [obs EXCEPT !.label = none, !.len = 0]
    /\ fb' = NoFeedback
    /\ inp' = NoInput
    /\ lastOp' = "setExercise"
    /\ UNCHANGED <<rc, refState, refCount, lastSample, crossed, skipped, scriptVars,
                   wall, run, burst, sess, label, pairVars, rcMirror, sideVars>>

StreakAnalyzeFrame ==
    /\ obs.frames < MaxStreakFrames
    /\ \E cls \in StreakLabels \cup {none}, pose \in PoseFrames :
          LET f == [pose EXCEPT !.cls = cls, !.shoulderY = 50]
              r == analyzeFrame(eng, f, null, wall)
          IN /\ eng' = r.eng
             /\ fb' = r.fb
             /\ obs' = ObserveStreak(obs, eng, cls)
             /\ inp' = [len |-> f.len, timestamp |-> null]
    /\ lastOp' = "analyzeFrame"
    /\ UNCHANGED <<rc, refState, refCount, lastSample, crossed, skipped, scriptVars,
                   wall, run, burst, sess, label, pairVars, rcMirror, sideVars>>

NextStreak == StreakSetExercise \/ StreakAnalyzeFrame

SpecStreak == InitStreak /\ [][NextStreak]_vars


-----------------------------------------------------------------------------
(* One RepCounter fed a frame every FrameIntervalMs with the frame's       *)
(* timestamp, while setRecordingStartTime() and reset() are called at any  *)
(* point.  Observer: the relative time (timestamp minus the recording      *)
(* start of that moment) of the update on which the repetition under way   *)
(* left the start phase and of the update on which it entered the peak     *)
(* phase.  rcMirror is a counter of the same construction given the same   *)
(* calls, except that it may be held back at rest while rc makes a rise:   *)
(* if the rise ends in a false start the two go on together ("sync"), if   *)
(* it reaches the peak rcMirror is followed no further ("off") until both  *)
(* are reset.                                                              *)

MaxStampFrames == 7
MaxStampStarts == 1

StampConfigs ==
    { <<"EccentricFirst", DefaultThresholdLow, DefaultThresholdHigh>>,
      <<"ConcentricFirst", 30, 70>> }

(* one completion below thresholdLow, one between the thresholds and below *)
(* the deadband, one at thresholdHigh and one above it                     *)
StampSamples(c) ==
    {c.thresholdLow - 5, c.thresholdLow + 2, c.thresholdHigh, c.thresholdHigh + 5}

StartPhases(mode) ==
    IF mode = "EccentricFirst" THEN {"Rest", "Top"} ELSE {"Rest", "Bottom"}
RisePhase(mode) == IF mode = "EccentricFirst" THEN "Eccentric" ELSE "Concentric"
PeakPhase(mode) == IF mode = "EccentricFirst" THEN "Bottom" ELSE "Top"

NoStamp ==
    [ frames |-> 0, now |-> 0, starts |-> 0, leftAt |-> null, peakAt |-> null,
      twin |-> "sync", falseStarts |-> 0 ]

(* the timestamp of the next frame *)
NextStamp(o) == IF o.frames = 0 THEN 0 ELSE o.now + FrameIntervalMs

ObserveStamp(o, before, after, ts) ==
    LET rel == ts - before.recordingStartTime
        fed == [o EXCEPT !.frames = @ + 1, !.now = ts]
    IN IF before.currentPhase \in StartPhases(before.mode)
       THEN (IF after.currentPhase = RisePhase(before.mode)
             THEN [fed EXCEPT !.leftAt = rel, !.peakAt = null] ELSE fed)
       ELSE IF before.currentPhase = RisePhase(before.mode)
       THEN (IF after.currentPhase = PeakPhase(before.mode)
             THEN [fed EXCEPT !.peakAt = rel]
             ELSE IF after.currentPhase \in StartPhases(before.mode)
                  THEN [fed EXCEPT !.leftAt = null, !.peakAt = null,
                                   !.falseStarts = IF o.twin = "held" THEN 1 ELSE @]
                  ELSE fed)
       ELSE IF after.count > before.count
            THEN [fed EXCEPT !.leftAt = null, !.peakAt = null]
            ELSE fed

InitStamp ==
    /\ SideIdle
    /\ \E cfg \in StampConfigs :
          /\ rc = NewRepCounter(cfg[1], cfg[2], cfg[3])
          /\ rcMirror = NewRepCounter(cfg[1], cfg[2], cfg[3])
    /\ obs = NoStamp
    /\ lastOp = "new"
    /\ refState = "L"
    /\ refCount = 0
    /\ lastSample = null
    /\ crossed = FALSE
    /\ skipped = FALSE
    /\ script = <<>>
    /\ pos = 0
    /\ fedTimes = <<>>
    /\ phaseTrace = <<>>
    /\ wall = WallEpoch
    /\ EngineIdle

StampUpdate ==
    /\ obs.frames < MaxStampFrames
    /\ \E completion \in StampSamples(rc), hold \in BOOLEAN :
          LET ts == NextStamp(obs)
              next == update(rc, completion, ts, wall)
              rises == /\ rc.currentPhase \in StartPhases(rc.mode)
                       /\ next.currentPhase = RisePhase(rc.mode)
          IN /\ rc' = next
             /\ lastSample' = completion
             /\ IF obs.twin = "held"
                THEN IF next.currentPhase \in StartPhases(rc.mode)
                     THEN /\ rcMirror' = update(rcMirror, completion, ts, wall)
                          /\ obs' = [ObserveStamp(obs, rc, next, ts) EXCEPT !.twin = "sync"]
                     ELSE IF next.currentPhase = PeakPhase(rc.mode)
                     THEN /\ rcMirror' = rcMirror
                          /\ obs' = [ObserveStamp(obs, rc, next, ts) EXCEPT !.twin = "off"]
                     ELSE /\ rcMirror' = rcMirror
                          /\ obs' = ObserveStamp(obs, rc, next, ts)
                ELSE IF obs.twin = "off"
                     THEN /\ rcMirror' = rcMirror
                          /\ obs' = ObserveStamp(obs, rc, next, ts)
                ELSE IF rises /\ hold
                     THEN /\ rcMirror' = rcMirror
                          /\ obs' = [ObserveStamp(obs, rc, next, ts) EXCEPT !.twin = "held"]
                     ELSE /\ rcMirror' = update(rcMirror, completion, ts, wall)
                          /\ obs' = ObserveStamp(obs, rc, next, ts)
    /\ lastOp' = "update"
    /\ UNCHANGED <<refState, refCount, crossed, skipped, scriptVars, wall, engVars, pairVars, sideVars>>

StampSetRecordingStartTime ==
    /\ obs.starts < MaxStampStarts
    /\ \E time \in {obs.now, NextStamp(obs)} :
          /\ rc' = setRecordingStartTimeRC(rc, time)
          /\ rcMirror' = setRecordingStartTimeRC(rcMirror, time)
    /\ obs' = [obs EXCEPT !.starts = @ + 1]
    /\ lastOp' = "setRecordingStartTime"
    /\ UNCHANGED <<refState, refCount, lastSample, crossed, skipped, scriptVars, wall,
                   engVars, pairVars, sideVars>>

StampReset ==
    /\ rc' = resetRC(rc)
    /\ rcMirror' = resetRC(rcMirror)
    /\ obs' = [obs EXCEPT !.leftAt = null, !.peakAt = null, !.twin = "sync",
                          !.falseStarts = 0]
    /\ lastOp' = "reset"
    /\ lastSample' = null
    /\ UNCHANGED <<refState, refCount, crossed, skipped, scriptVars, wall, engVars, pairVars, sideVars>>

NextStampCalls == StampUpdate \/ StampSetRecordingStartTime \/ StampReset

SpecStamp == InitStamp /\ [][NextStampCalls]_vars


-----------------------------------------------------------------------------
(* One engine in the mode chosen before the first frame, fed full frames   *)
(* of a movement from the live camera: in Auto-Detect the frames are       *)
(* labelled Plank or Squat until the engine locks.                         *)

(* frames that reach an analyzer *)
MaxRepsFrames == 4

RepsLabels == {"Plank", "Squat"}

RepsSetExercise ==
    /\ sess.frames = 0
    /\ sess.switches = 0
    /\ \E exercise \in ExerciseType : eng' = setExercise(eng, exercise)
    /\ sess' = [sess EXCEPT !.switches = @ + 1]
    /\ fb' = NoFeedback
    /\ inp' = NoInput
    /\ lastOp' = "setExercise"
    /\ UNCHANGED <<rc, refState, refCount, lastSample, crossed, skipped, scriptVars,
                   wall, run, burst, label, pairVars, auxVars, sideVars>>

RepsAnalyzeFrame ==
    /\ sess.frames < MaxRepsFrames
    /\ \E pose \in PoseFrames, cls \in RepsLabels, y \in ShoulderHeights(burst) :
          LET f == [pose EXCEPT !.cls = cls, !.shoulderY = y]
              r == analyzeFrame(eng, f, null, WallTick)
          IN /\ eng' = r.eng
             /\ fb' = r.fb
             /\ burst' = BurstNext(burst, y)
             /\ inp' = [len |-> f.len, timestamp |-> null]
             /\ sess' = IF r.eng.currentExercise # AutoDetect \/ r.eng.isLocked
                        THEN [sess EXCEPT !.frames = @ + 1] ELSE sess
    /\ wall' = WallTick
    /\ lastOp' = "analyzeFrame"
    /\ UNCHANGED <<rc, refState, refCount, lastSample, crossed, skipped, scriptVars,
                   run, label, pairVars, auxVars, sideVars>>

NextReps == RepsSetExercise \/ RepsAnalyzeFrame

SpecReps == InitEngine /\ [][NextReps]_vars


-----------------------------------------------------------------------------
(* Biomechanical scorers: BiomechanicalAnalyzer.ts and three of its        *)
(* subclasses.  A frame reaches a scorer as the measurements its pillar    *)
(* functions take of the landmarks: the camera view detectView() returns,  *)
(* angles in degrees, positions in hundredths of the frame.  A pillar is   *)
(* in points, a weighted total in hundredths of a point.                   *)

MaxScorerFrames == 6

maxHistoryLength == 30

ScorerClasses == {"RowBiomechanics", "LegRaiseBiomechanics", "PushUpBiomechanics"}

NewScorer(class) == [class |-> class, history |-> <<>>]

(* torso: shoulder-hip line against the horizontal; spine: ear-shoulder-   *)
(* hip; tuck: hip-shoulder-elbow; hip: shoulder-hip-knee; knee: hip-knee-  *)
(* ankle; shoulderY: height of the shoulders; sway: |shoulderX - hipX|     *)
Measured(view, torso, spine, tuck, hip, knee, shoulderY, sway) ==
    [ view |-> view, torso |-> torso, spine |-> spine, tuck |-> tuck,
      hip |-> hip, knee |-> knee, shoulderY |-> shoulderY, sway |-> sway ]

ScorerFrames(class) ==
    CASE class = "RowBiomechanics" ->
           { Measured("Side", 45, 180, 40, 170, 170, 50, 0),
             Measured("Side", 75, 180, 40, 170, 170, 50, 0),
             Measured("Side", 15, 180, 40, 170, 170, 50, 0),
             Measured("Side", 45, 150, 40, 170, 170, 50, 0),
             Measured("Front", 75, 180, 70, 170, 170, 50, 0) }
      [] class = "LegRaiseBiomechanics" ->
           { Measured("Front", 90, 180, 20, 90, 170, 50, 0),
             Measured("Front", 90, 180, 20, 120, 170, 60, 0),
             Measured("Side", 90, 180, 20, 90, 155, 50, 20) }
      [] OTHER ->
           { Measured("Side", 10, 180, 40, 180, 170, 50, 0),
             Measured("Side", 10, 180, 40, 145, 170, 50, 0),
             Measured("Side", 10, 160, 40, 180, 170, 50, 0) }

(* BiomechanicalAnalyzer.analyzePillars first keeps the frame *)
Remember(history, f) ==
    LET pushed == Append(history, f)
    IN IF Len(pushed) > maxHistoryLength THEN Tail(pushed) ELSE pushed

(* the pillar functions of the base class *)
BaseStability(s, f, view) == IF Len(s.history) < 5 THEN 100 ELSE 100
BaseROM(s, f, view) == 100
BasePosture(s, f, view) ==
    LET deviation == Abs(180 - f.spine)
    IN MaxOf({0, 100 - deviation * 2})
BaseEfficiency(s, f, phase, view) == 100
BaseBracing(s, f, view) == 100

(* the pillar functions as a scorer of class s.class runs them *)
calculateStability(s, f, view) ==
    CASE s.class = "RowBiomechanics" -> 100
      [] s.class = "LegRaiseBiomechanics" ->
           IF /\ Len(s.history) > 5
              /\ Abs(f.shoulderY - s.history[1].shoulderY) > 5
           THEN 60
           ELSE IF view = "Side" /\ f.sway > 15 THEN 70
           ELSE 100
      [] s.class = "PushUpBiomechanics" -> 100
      [] OTHER -> BaseStability(s, f, view)

calculateROM(s, f, view) ==
    CASE s.class = "RowBiomechanics" -> 100
      [] s.class = "LegRaiseBiomechanics" ->
           IF f.hip <= 90 THEN 100
           ELSE IF f.hip <= 110 THEN 85
           ELSE IF f.hip <= 130 THEN 60
           ELSE 40
      [] s.class = "PushUpBiomechanics" -> 100
      [] OTHER -> BaseROM(s, f, view)

calculatePosture(s, f, view) ==
    CASE s.class = "RowBiomechanics" ->
           IF view = "Front" THEN 100
           ELSE IF f.torso > 70 THEN 40
           ELSE IF f.torso < 20 THEN 50
           ELSE IF f.torso >= 30 /\ f.torso <= 60 THEN 100
           ELSE 80
      [] OTHER -> BasePosture(s, f, view)

calculateEfficiency(s, f, phase, view) ==
    CASE s.class = "LegRaiseBiomechanics" ->
           IF f.knee < 150 THEN 60
           ELSE IF f.knee < 165 THEN 85
           ELSE 100
      [] OTHER -> BaseEfficiency(s, f, phase, view)

calculateBracing(s, f, view) ==
    CASE s.class = "RowBiomechanics" ->
           IF view = "Front" THEN 100
           ELSE IF Abs(180 - f.spine) > 20 THEN 50
           ELSE IF f.tuck > 60 THEN 60
           ELSE 100
      [] s.class = "PushUpBiomechanics" ->
           IF f.hip < 150 THEN 60
           ELSE IF f.hip < 165 THEN 80
           ELSE IF f.hip > 190 THEN 70
           ELSE 100
      [] OTHER -> BaseBracing(s, f, view)

(* analyzePillars of the base class, which the three classes override *)
BaseAnalyzePillars(s, f, phase, view) ==
    LET kept == [s EXCEPT !.history = Remember(@, f)]
    IN [ st |-> kept,
         breakdown |-> [ stability |-> calculateStability(kept, f, view),
                         rom |-> calculateROM(kept, f, view),
                         posture |-> calculatePosture(kept, f, view),
                         efficiency |-> calculateEfficiency(kept, f, phase, view),
                         bracing |-> calculateBracing(kept, f, view) ] ]

analyzePillars(s, f, phase, view) ==
    CASE s.class = "RowBiomechanics" ->
           [ st |-> s,
             breakdown |-> [ stability |-> calculateStability(s, f, view),
                             rom |-> calculateROM(s, f, view),
                             posture |-> 100,
                             efficiency |-> calculateEfficiency(s, f, phase, view),
                             bracing |-> 100 ] ]
      [] s.class = "LegRaiseBiomechanics" ->
           [ st |-> s,
             breakdown |-> [ stability |-> calculateStability(s, f, view),
                             rom |-> calculateROM(s, f, view),
                             posture |-> 100,
                             efficiency |-> calculateEfficiency(s, f, phase, view),
                             bracing |-> 100 ] ]
      [] s.class = "PushUpBiomechanics" ->
           [ st |-> s,
             breakdown |-> [ stability |-> calculateStability(s, f, view),
                             rom |-> calculateROM(s, f, view),
                             posture |-> calculatePosture(s, f, view),
                             efficiency |-> calculateEfficiency(s, f, phase, view),
                             bracing |-> calculateBracing(s, f, view) ] ]
      [] OTHER -> BaseAnalyzePillars(s, f, phase, view)

(* totalScore of the analyzer that owns the scorer *)
totalScore(class, b) ==
    CASE class = "RowBiomechanics" ->
           b.posture * 40 + b.bracing * 30 + b.rom * 30
      [] class = "LegRaiseBiomechanics" ->
           b.rom * 30 + b.stability * 30 + b.efficiency * 20 + b.bracing * 20
      [] OTHER ->
           b.rom * 30 + b.stability * 20 + b.bracing * 30 + b.posture * 20

InitScorer ==
    /\ RepIdle
    /\ wall = WallEpoch
    /\ EngineIdle
    /\ rcMirror = Absent
    /\ \E class \in ScorerClasses : scorer = NewScorer(class)
    /\ pillars = Absent
    /\ upload = Absent
    /\ obs = [fed |-> <<>>]

(* lines 19 and 44-48 of an analyzer's analyze(): the frame goes to the    *)
(* scorer and the pillars are weighed                                      *)
ScorerAnalyzePillars ==
    /\ Len(obs.fed) < MaxScorerFrames
    /\ \E f \in ScorerFrames(scorer.class), phase \in RepPhase :
          LET r == analyzePillars(scorer, f, phase, f.view)
          IN /\ scorer' = r.st
             /\ pillars' = [ breakdown |-> r.breakdown,
                             total |-> totalScore(scorer.class, r.breakdown) ]
             /\ obs' = [obs EXCEPT !.fed = Append(@, f)]
    /\ UNCHANGED <<repVars, scriptVars, wall, engVars, pairVars, rcMirror, upload>>

NextScorer == ScorerAnalyzePillars

SpecScorer == InitScorer /\ [][NextScorer]_vars

-----------------------------------------------------------------------------
(* The fifteen analyzers, each fed full frames whose weighted total lies   *)
(* below, at and above 80 points, with and without a quality flag of the   *)
(* squat analysis, and with the hips in and out of line for the plank.     *)

MaxFormFrames == 3

FormFrames ==
    { [FullFrame EXCEPT !.total = total, !.flagged = flagged, !.hipAngle = hipAngle] :
        total \in {7000, 8000, 9000}, flagged \in BOOLEAN, hipAngle \in {180, 160} }

InitForm ==
    /\ SideIdle
    /\ RepIdle
    /\ wall = WallEpoch
    /\ eng = NewEngine(wall)
    /\ fb = NoFeedback
    /\ inp = NoInput
    /\ run = NoRun
    /\ burst = [moved |-> 0, over |-> FALSE]
    /\ \E exercise \in Exercises : sess = [NoSession EXCEPT !.target = exercise]
    /\ label = none
    /\ PairIdle
    /\ obs = [flagged |-> FALSE]
    /\ rcMirror = Absent

FormAnalyze ==
    /\ sess.frames < MaxFormFrames
    /\ \E f \in FormFrames :
          LET r == Analyze(eng, sess.target, f, null, WallTick)
          IN /\ eng' = r.eng
             /\ fb' = r.fb
             /\ inp' = [len |-> f.len, timestamp |-> null]
             /\ obs' = [flagged |-> f.flagged]
    /\ sess' = [sess EXCEPT !.frames = @ + 1]
    /\ wall' = WallTick
    /\ lastOp' = "analyze"
    /\ UNCHANGED <<rc, refState, refCount, lastSample, crossed, skipped, scriptVars,
                   run, burst, label, pairVars, rcMirror, sideVars>>

NextForm == FormAnalyze

SpecForm == InitForm /\ [][NextForm]_vars

-----------------------------------------------------------------------------
(* The upload flow of an analysis screen: handleAnalyze of                 *)
(* VideoAnalysisScreen (part_006) and of CameraScreen, with analyzeWorkout *)
(* (ExerciseAnalyzer.ts:263-318).  upload.now is the time, in ms, of the   *)
(* last timer callback run; a pending callback runs when none is due       *)
(* before it, the steps of the request at any moment.                      *)

MaxRequests == 2

ProgressIntervalMs == 300
AnalyzingDelayMs == 2000

AnalysisPhase == {"idle", "uploading", "analyzing", "complete", "error"}

NewScreen ==
    [ analysisPhase |-> "idle",
      uploadProgress |-> 0,
      now |-> 0,
      intervals |-> {},
      timers |-> {},
      request |-> "none",
      alert |-> FALSE,
      requests |-> 0 ]

(* the loading screen replaces the screen while uploading or analyzing *)
LoadingScreenShown(u) == u.analysisPhase \in {"uploading", "analyzing"}

(* no pending callback is due before time due *)
Earliest(u, due) == \A c \in u.intervals \cup u.timers : due <= c.due

(* the catch block of handleAnalyze *)
Fails(u) == [u EXCEPT !.analysisPhase = "error", !.alert = TRUE, !.request = "none"]

InitUpload ==
    /\ RepIdle
    /\ wall = WallEpoch
    /\ EngineIdle
    /\ AuxIdle
    /\ scorer = Absent
    /\ pillars = Absent
    /\ upload = NewScreen

(* handleAnalyze up to the await: the phase, the interval, the timer, and  *)
(* analyzeWorkout up to its fetch, which reports progress 0                *)
HandleAnalyze ==
    /\ upload.analysisPhase = "idle"
    /\ ~upload.alert
    /\ upload.requests < MaxRequests
    /\ LET r == upload.requests + 1
       IN upload' = [upload EXCEPT
                        !.analysisPhase = "uploading",
                        !.uploadProgress = 0,
                        !.intervals = @ \cup {[req |-> r, due |-> upload.now + ProgressIntervalMs]},
                        !.timers = @ \cup {[req |-> r, due |-> upload.now + AnalyzingDelayMs]},
                        !.request = "sent",
                        !.requests = r]
    /\ UNCHANGED <<repVars, scriptVars, wall, engVars, pairVars, auxVars, scorer, pillars>>

(* the callback of setInterval *)
ProgressTick ==
    /\ \E i \in upload.intervals :
          /\ Earliest(upload, i.due)
          /\ upload' = IF upload.uploadProgress >= 90
                       THEN [upload EXCEPT !.intervals = @ \ {i},
                                           !.uploadProgress = 90,
                                           !.now = i.due]
                       ELSE [upload EXCEPT
                                !.intervals = (@ \ {i}) \cup
                                    {[req |-> i.req, due |-> i.due + ProgressIntervalMs]},
                                !.uploadProgress = @ + 10,
                                !.now = i.due]
    /\ UNCHANGED <<repVars, scriptVars, wall, engVars, pairVars, auxVars, scorer, pillars>>

(* the callback of setTimeout *)
AnalyzingTimer ==
    /\ \E t \in upload.timers :
          /\ Earliest(upload, t.due)
          /\ upload' = [upload EXCEPT
                           !.intervals = {i \in @ : i.req # t.req},
                           !.timers = @ \ {t},
                           !.uploadProgress = 100,
                           !.analysisPhase = "analyzing",
                           !.now = t.due]
    /\ UNCHANGED <<repVars, scriptVars, wall, engVars, pairVars, auxVars, scorer, pillars>>

(* fetch resolves: progress 100, then the body is awaited *)
FetchResolves ==
    /\ upload.request = "sent"
    /\ \E ok \in BOOLEAN :
          upload' = [upload EXCEPT !.uploadProgress = 100,
                                   !.request = IF ok THEN "ok" ELSE "refused"]
    /\ UNCHANGED <<repVars, scriptVars, wall, engVars, pairVars, auxVars, scorer, pillars>>

(* fetch rejects: analyzeWorkout throws *)
FetchRejects ==
    /\ upload.request = "sent"
    /\ upload' = Fails(upload)
    /\ UNCHANGED <<repVars, scriptVars, wall, engVars, pairVars, auxVars, scorer, pillars>>

(* the body is read: a result is returned, or the body of an accepted     *)
(* request does not parse, or a server error is thrown                     *)
BodyRead ==
    /\ upload.request \in {"ok", "refused"}
    /\ \E parsed \in BOOLEAN :
          upload' = IF upload.request = "ok" /\ parsed
                    THEN [upload EXCEPT !.analysisPhase = "complete", !.request = "none"]
                    ELSE Fails(upload)
    /\ UNCHANGED <<repVars, scriptVars, wall, engVars, pairVars, auxVars, scorer, pillars>>

(* the OK button of the alert *)
AlertOk ==
    /\ upload.alert
    /\ upload' = [upload EXCEPT !.analysisPhase = "idle", !.alert = FALSE]
    /\ UNCHANGED <<repVars, scriptVars, wall, engVars, pairVars, auxVars, scorer, pillars>>

NextUpload ==
    \/ HandleAnalyze
    \/ ProgressTick
    \/ AnalyzingTimer
    \/ FetchResolves
    \/ FetchRejects
    \/ BodyRead
    \/ AlertOk

SpecUpload == InitUpload /\ [][NextUpload]_vars

-----------------------------------------------------------------------------
(* Properties *)

(* C1: across any update() call, in either mode and with any configured    *)
(* thresholds, completion and timestamp, count does not decrease; a step   *)
(* that lowers count is a reset().                                         *)
C1_CountNeverDecreases ==
    [][/\ (lastOp' = "update" => rc'.count >= rc.count)
       /\ (rc'.count < rc.count => lastOp' = "reset")]_vars

C1_Witness == lastOp = "update" /\ rc.count = MaxReps

(* C2 as stated: in EccentricFirst mode, when no two adjacent samples lay  *)
(* on opposite sides of both thresholds, count equals the number of        *)
(* completed low->high->low cycles of the samples fed so far.              *)
C2_CountEqualsCycles ==
    (rc.mode = "EccentricFirst" /\ ~crossed) => rc.count = refCount

(* C2 amended: in EccentricFirst mode, when no sample at or above          *)
(* thresholdHigh directly followed a sample at rest (at or below           *)
(* thresholdLow, a fresh counter being at rest) and no sample at or below  *)
(* thresholdLow directly followed a sample at or above thresholdHigh - 0.1,*)
(* count equals the number of completed cycles of the samples fed so far.  *)
C2_CountEqualsSampledCycles ==
    (rc.mode = "EccentricFirst" /\ ~skipped) => rc.count = refCount

C2_Witness ==
    rc.mode = "EccentricFirst" /\ ~skipped /\ lastOp = "update" /\ rc.count = MaxReps

(* the lock thresholds C3 names, in frames *)
NamedLockThreshold(x) ==
    IF x = "Plank" THEN 30
    ELSE IF x \in {"Russian Twist", "Lateral Raises"} THEN 12
    ELSE IF x \in {"Pull Up", "Lat Pulldown", "Bench Press", "Leg Raises"} THEN 4
    ELSE 6

(* after a run of frames all labelled run.runEx since Auto-Detect was      *)
(* entered: unlocked up to n frames, locked to that exercise from frame    *)
(* n + 1 on, with every frame since routed to its analyzer                 *)
LocksAfter(n) ==
    /\ run.runLen <= n => ~eng.isLocked
    /\ run.runLen > n =>
          /\ eng.isLocked
          /\ eng.lockedExercise = run.runEx
          /\ ~fb.threw
          /\ fb.prefix = run.runEx

C4_PlankLockFollowsMovement ==
    [][ ( /\ lastOp' = "analyzeFrame"
          /\ eng.currentExercise = AutoDetect
          /\ eng.isLocked
          /\ eng.lockedExercise = "Plank" )
        => IF Spread(eng'.shoulderHistory) > 5
           THEN eng'.lockedExercise = "Push Up" /\ fb'.prefix = "Push Up"
           ELSE eng'.lockedExercise = "Plank" /\ fb'.prefix = "Plank" ]_vars

C4_Witness ==
    /\ lastOp = "analyzeFrame"
    /\ eng.lockedExercise = "Push Up"
    /\ eng.potentialExercise = "Plank"
    /\ eng.consecutiveFrames = 31
    /\ fb.prefix = "Push Up"
    /\ fb.detectedExercise = "Push Up"

(* C5 as stated: analyzeFrame given a missing, empty or shorter-than-33    *)
(* landmarks array, in manual mode with any exercise and in Auto-Detect    *)
(* mode locked or not, does not throw and returns a Feedback with score 0  *)
(* and isGoodForm false.  A read past the end of the array yields          *)
(* undefined, whose field access is the TypeError: not throwing is not     *)
(* reading past the end.                                                   *)
C5_ShortInputDegrades ==
    (lastOp = "analyzeFrame" /\ inp.len < 33)
    => (~fb.threw /\ fb.score = 0 /\ ~fb.isGoodForm)

(* C6 as stated: for a landmarks array shorter than 33, classifyExercise   *)
(* returns null, and analyze() of each of the 15 analyzers returns the     *)
(* canonical empty feedback and leaves the state of the analyzer as it     *)
(* was.                                                                    *)
C6_ShortInputIsInert ==
    [][ /\ (lastOp' = "analyze" /\ inp'.len < 33)
           => (CanonicalEmpty(fb') /\ eng' = eng)
        /\ (lastOp' = "classifyExercise" /\ inp'.len < 33)
           => label' = none ]_vars

(* C7 as stated: a fresh EccentricFirst counter with thresholds 0.35 and   *)
(* 0.55 fed 0.4, 0.2, 0.4, 0.6, 0.2 has count 1 after the last sample and  *)
(* exactly one RepTimestamp, whose start is the time of the sample of      *)
(* index 2.                                                                *)
C7_FalseStartThenOneRep ==
    (script = FalseStartScript /\ pos = Len(script)) =>
        /\ rc.count = 1
        /\ Len(rc.repTimestamps) = 1
        /\ rc.repTimestamps[1].start = fedTimes[3]

(* C7 amended: after the last sample of 0.4, 0.2, 0.4, 0.6, 0.2 the        *)
(* counter is in phase Concentric with count 0 and no RepTimestamp; one    *)
(* more sample at or below thresholdLow makes count 1 (not 2) with exactly *)
(* one RepTimestamp, whose start is the time of the sample of index 2 and  *)
(* not of the false start at index 0.                                      *)
C7_FalseStartThenOneRepAfterReturn ==
    /\ (SubSeq(script, 1, pos) = FalseStartScript) =>
          /\ rc.count = 0
          /\ rc.currentPhase = "Concentric"
          /\ rc.repTimestamps = <<>>
    /\ (script \in FalseStartScriptDone /\ pos = Len(script)) =>
          /\ rc.count = 1
          /\ Len(rc.repTimestamps) = 1
          /\ rc.repTimestamps[1].start = fedTimes[3]
          /\ rc.repTimestamps[1].start # fedTimes[1]

C7_Witness ==
    /\ script \in FalseStartScriptDone
    /\ pos = Len(script)
    /\ rc.count = 1

(* C8: a fresh EccentricFirst counter fed 0.0, 0.4, 0.6, 0.6, 0.3, 0.1     *)
(* (thresholds 0.35 and 0.55) returns the phases Rest, Eccentric, Bottom,  *)
(* Bottom, Concentric, Top and ends with count 1 and one RepTimestamp; so  *)
(* does every sequence of the family rest.., rise, peak.., back, rest.     *)
C8_OneRepSequence ==
    pos = Len(script) =>
        /\ script = OneRepScript =>
              rc.count = 1 /\ Len(rc.repTimestamps) = 1 /\ phaseTrace = OneRepPhases
        /\ IsOneRepShape(script, rc) =>
              /\ rc.count = 1
              /\ Len(rc.repTimestamps) = 1
              /\ phaseTrace = FamilyPhases(script, rc)

C8_Witness ==
    /\ pos = Len(script)
    /\ script = OneRepScript
    /\ rc.count = 1

C8_WitnessFamily ==
    /\ pos = Len(script)
    /\ IsOneRepShape(script, rc)
    /\ Len(script) = 2 * MaxRun + 3
    /\ rc.count = 1

(* C9 as stated: two freshly constructed engines given the same calls of   *)
(* setExercise, setRecordingStartTime and analyzeFrame, with timestamps of *)
(* a video timeline starting at 0, return the same Feedback at every call  *)
(* and the same getRepTimestamps() for every exercise, whatever their      *)
(* clocks read.                                                            *)
C9_SameCallsSameResults ==
    /\ fb = fb2
    /\ \A ex \in Exercises : getRepTimestampsOf(eng, ex) = getRepTimestampsOf(eng2, ex)
    /\ getRepTimestamps(eng) = getRepTimestamps(eng2)

(* C10 as stated: when setRecordingStartTime(t) was called before the      *)
(* first frame and every frame carried a timestamp, the RepTimestamp a     *)
(* call of analyzeFrame adds for the selected exercise ends at the         *)
(* timestamp of that call minus t and has its mid at the timestamp of a    *)
(* frame of the session minus t; for an analyzer with a RepCounter it      *)
(* starts at the timestamp of the frame on which the repetition left rest  *)
(* minus t and has its mid at the timestamp of the frame on which it       *)
(* reached the peak minus t.                                               *)
C10_TimestampsRelativeToBaseline ==
    ( /\ lastOp = "analyzeFrame"
      /\ sess.tracking
      /\ sess.baseline # null
      /\ sess.rep # NoRep )
    => /\ sess.rep.end = inp.timestamp - sess.baseline
       /\ \E b \in sess.times : sess.rep.mid = b - sess.baseline
       /\ sess.target \in CounterExercises =>
             /\ sess.rep.start = sess.startTs - sess.baseline
             /\ sess.rep.mid = sess.peakTs - sess.baseline

(* C11 as stated: after every call of setExercise the engine is unlocked,  *)
(* lockedExercise and potentialExercise are null, consecutiveFrames is 0   *)
(* and the history of shoulder heights is empty.                           *)
C11_SetExerciseResetsDetection ==
    lastOp = "setExercise"
    => /\ ~eng.isLocked
       /\ eng.lockedExercise = none
       /\ eng.consecutiveFrames = 0
       /\ eng.potentialExercise = none
       /\ eng.shoulderHistory = <<>>

(* the rep counter of the analyzer of ex is as constructed *)
FreshCounter(e, ex) ==
    /\ e.counters[ex].count = 0
    /\ e.counters[ex].currentPhase = "Rest"
    /\ e.counters[ex].repTimestamps = <<>>

(* C12 as stated: a call of setExercise that selects another exercise than *)
(* the one selected before leaves the rep counter of the newly selected    *)
(* analyzer at count 0 and phase Rest, and getRepTimestamps() empty, so    *)
(* that its first Feedback counts from 0 and no earlier rep is reported.   *)
C12_SwitchResetsCounting ==
    [][ ( /\ lastOp' = "setExercise"
          /\ eng'.currentExercise # eng.currentExercise )
        => /\ FreshCounter(eng', eng'.currentExercise)
           /\ getRepTimestamps(eng') = <<>> ]_vars

(* C13 as stated: a call of PlankAnalyzer.analyze adds to the accumulated  *)
(* hold time only if the frame has acceptable form, is not the first frame *)
(* of its unbroken run of acceptable frames, and comes more than 0.5 s     *)
(* after the first frame of that run.                                      *)
C13_HoldTimeAfterStabilization ==
    [][ ( /\ lastOp' = "analyze"
          /\ eng'.plank.accumulatedSeconds > eng.plank.accumulatedSeconds )
        => /\ fb'.isGoodForm
           /\ obs.since # null
           /\ wall' - obs.since > 500 ]_vars

(* C14: a call of RussianTwistAnalyzer.analyze counts at most one rep, and *)
(* counts it only when the wrists are further from the hip centre than     *)
(* half the shoulder width, on the other side than the current direction,  *)
(* the wrists were seen on both sides of the centre since the frame of the *)
(* previous counted rep, and that frame lies more than 500 ms of frame     *)
(* time back.                                                              *)
C14_TwistRepsSpacedAndCrossed ==
    [][ ( /\ lastOp' = "analyze"
          /\ eng'.twist.repCount # eng.twist.repCount )
        => /\ eng'.twist.repCount = eng.twist.repCount + 1
           /\ 2 * Abs(eng'.twist.lastXOffset) > obs'.width
           /\ (IF eng'.twist.lastXOffset > 0 THEN "left" ELSE "right")
                 # eng.twist.direction
           /\ obs.signs \cup Side(eng'.twist.lastXOffset) = {-1, 1}
           /\ obs.lastRepAt # null => obs'.at - obs.lastRepAt > 500 ]_vars

C14_Witness ==
    /\ lastOp = "analyze"
    /\ eng.twist.repCount = 2
    /\ obs.lastRepAt = obs.at
    /\ Len(eng.twist.repTimestamps) = 2

(* the analyzers C15 names for each mode *)
NamedConcentricFirst == {"Barbell Biceps Curl", "Pull Up", "Lateral Raises", "Leg Raises"}
NamedEccentricFirst == {"Squat", "Bench Press", "Push Up", "Tricep Dips"}

(* C15 as stated: the rep counters of the Barbell Biceps Curl, Pull Up,    *)
(* Lateral Raises and Leg Raises analyzers are in ConcentricFirst mode and *)
(* leave Rest for Concentric; those of the Squat, Bench Press, Push Up and *)
(* Tricep Dips analyzers are in EccentricFirst mode and leave Rest for     *)
(* Eccentric.                                                              *)
C15_AnalyzerModes ==
    [][ ( /\ lastOp' = "analyze"
          /\ sess.target \in NamedConcentricFirst \cup NamedEccentricFirst
          /\ eng.counters[sess.target].currentPhase = "Rest"
          /\ eng'.counters[sess.target].currentPhase # "Rest" )
        => IF sess.target \in NamedConcentricFirst
           THEN /\ eng'.counters[sess.target].mode = "ConcentricFirst"
                /\ eng'.counters[sess.target].currentPhase = "Concentric"
           ELSE /\ eng'.counters[sess.target].mode = "EccentricFirst"
                /\ eng'.counters[sess.target].currentPhase = "Eccentric" ]_vars

(* the phase the EccentricFirst table of C16 gives after one sample *)
TableEccentricFirst(phase, completion, low, high) ==
    CASE phase \in {"Rest", "Top"} ->
            IF completion > low THEN "Eccentric" ELSE phase
      [] phase = "Eccentric" ->
            IF completion >= high THEN "Bottom"
            ELSE IF completion < low THEN "Top" ELSE phase
      [] phase = "Bottom" ->
            IF completion < high - 10 THEN "Concentric" ELSE phase
      [] phase = "Concentric" ->
            IF completion <= low THEN "Top"
            ELSE IF completion > high THEN "Bottom" ELSE phase

PeakOrReturn(mode) ==
    IF mode = "EccentricFirst" THEN {"Bottom", "Concentric"} ELSE {"Top", "Eccentric"}

MirrorPhase(phase) ==
    CASE phase = "Eccentric" -> "Concentric"
      [] phase = "Concentric" -> "Eccentric"
      [] phase = "Bottom" -> "Top"
      [] phase = "Top" -> "Bottom"
      [] OTHER -> phase

(* C18: two counters with the same thresholds, one of each mode, given the *)
(* same calls of update() agree on the count and on the recorded           *)
(* repetitions after every call, and their phases are each other's mirror: *)
(* Eccentric for Concentric, Bottom for Top, Rest for Rest.                *)
C18_ModesMirror ==
    /\ rcMirror.mode = OtherMode(rc.mode)
    /\ rcMirror.count = rc.count
    /\ rcMirror.repTimestamps = rc.repTimestamps
    /\ rcMirror.currentPhase = MirrorPhase(rc.currentPhase)

C18_Witness ==
    /\ lastOp = "update"
    /\ rc.mode = "EccentricFirst"
    /\ rc.currentPhase = "Concentric"
    /\ rcMirror.currentPhase = "Eccentric"
    /\ rc.count = 1
    /\ Len(rcMirror.repTimestamps) = 1

(* C19 as stated: in Auto-Detect mode a call of analyzeFrame commits a     *)
(* lock to X only when it ends a run of more than N(X) frames in a row     *)
(* that the classifier all labelled X; a frame with another label or with  *)
(* none ends the run, and the count of the engine is 1 on the next         *)
(* labelled frame: while unlocked the count after a labelled frame is the  *)
(* length of the run that frame ends.                                      *)
C19_LockOnlyAfterUnbrokenRun ==
    [][ ( /\ lastOp' = "analyzeFrame"
          /\ eng.currentExercise = AutoDetect
          /\ ~eng.isLocked
          /\ obs'.label # none )
        => /\ eng'.isLocked
              => /\ eng'.lockedExercise = obs'.label
                 /\ obs'.len > LockThreshold(obs'.label)
           /\ eng'.consecutiveFrames = obs'.len ]_vars

(* C20: a call of analyzeFrame in Auto-Detect mode that leaves the engine  *)
(* unlocked (the classifier gave no label, or the run has not exceeded the *)
(* lock threshold) returns a placeholder with score 0, reps 0 and          *)
(* isGoodForm false, and changes no analyzer: every rep counter with its   *)
(* count, phase and rep timestamps, the plank timer and the twist counter  *)
(* are what they were before the call.                                     *)
C20_UnlockedFramesReachNoAnalyzer ==
    [][ ( /\ lastOp' = "analyzeFrame"
          /\ eng.currentExercise = AutoDetect
          /\ ~eng'.isLocked )
        => /\ fb'.score = 0
           /\ fb'.reps = 0
           /\ ~fb'.isGoodForm
           /\ ~fb'.threw
           /\ fb'.prefix = none
           /\ eng'.counters = eng.counters
           /\ eng'.plank = eng.plank
           /\ eng'.twist = eng.twist ]_vars

(* a frame at the peak of a movement, labelled Squat for the sixth time in *)
(* a row, is answered with the placeholder                                 *)
C20_Witness ==
    /\ lastOp = "analyzeFrame"
    /\ eng.currentExercise = AutoDetect
    /\ ~eng.isLocked
    /\ eng.potentialExercise = "Squat"
    /\ eng.consecutiveFrames = 6
    /\ obs.len = 6
    /\ fb.repPhase = "Detecting Squat..."
    /\ eng.counters["Squat"].currentPhase = "Rest"

(* the RepTimestamp pushed last *)
LastRep(c) == c.repTimestamps[Len(c.repTimestamps)]

(* C21 as stated: every RepTimestamp a call of update() records has start  *)
(* equal to the relative time of the update on which the repetition last   *)
(* left the start phase, mid equal to the relative time of the update on   *)
(* which it entered the peak phase, and end equal to the relative time of  *)
(* the recording update; mid is the time of completion only when no peak   *)
(* was marked.                                                             *)
C21_RepTimestampMarksTransitions ==
    [][ ( /\ lastOp' = "update"
          /\ Len(rc'.repTimestamps) = Len(rc.repTimestamps) + 1 )
        => /\ LastRep(rc').start = obs.leftAt
           /\ LastRep(rc').end = obs'.now - rc.recordingStartTime
           /\ LastRep(rc').mid = (IF obs.peakAt # null THEN obs.peakAt
                                  ELSE LastRep(rc').end) ]_vars

(* C22 as stated: every recorded RepTimestamp has start <= mid <= end,     *)
(* when the timestamps of the updates never decrease and                   *)
(* setRecordingStartTime() is called at any point, also within a rep.      *)
C22_RepTimestampOrdered ==
    \A i \in 1..Len(rc.repTimestamps) :
        /\ rc.repTimestamps[i].start <= rc.repTimestamps[i].mid
        /\ rc.repTimestamps[i].mid <= rc.repTimestamps[i].end

(* C23: in every state of a RepCounter reached by calls of update(),       *)
(* setRecordingStartTime() and reset(), in either mode, the number of      *)
(* stored RepTimestamps is the count.                                      *)
C23_OneTimestampPerRep == Len(rc.repTimestamps) = rc.count

C23_Witness ==
    /\ lastOp = "update"
    /\ rc.mode = "ConcentricFirst"
    /\ rc.count = 1
    /\ Len(rc.repTimestamps) = 1
    /\ obs.starts = 1
    /\ rc.currentPhase = "Concentric"

(* Rest and Top (Bottom in ConcentricFirst) are one case of update() *)
PhaseCase(c) ==
    IF c.currentPhase \in StartPhases(c.mode) THEN "Start" ELSE c.currentPhase

(* C24: after a false start the counter is, for every later call, what a   *)
(* counter with the same count that stayed at rest is: both have the same  *)
(* count, the same recorded repetitions, the same (cleared or fresh) start *)
(* and mid markers and the same phase, Rest and Top taken as one.          *)
C24_FalseStartLosesNothing ==
    obs.twin = "sync"
    => /\ rcMirror.count = rc.count
       /\ rcMirror.repTimestamps = rc.repTimestamps
       /\ rcMirror.currentRepStartTime = rc.currentRepStartTime
       /\ rcMirror.currentRepMidTime = rc.currentRepMidTime
       /\ PhaseCase(rcMirror) = PhaseCase(rc)

(* rc made a false start while rcMirror rested, and both then counted the  *)
(* same repetition                                                         *)
C24_Witness ==
    /\ lastOp = "update"
    /\ obs.twin = "sync"
    /\ obs.falseStarts = 1
    /\ rc.mode = "EccentricFirst"
    /\ rc.count = 1
    /\ rcMirror.count = 1
    /\ Len(rc.repTimestamps) = 1
    /\ rc.repTimestamps[1].start = 2 * FrameIntervalMs

(* C25 as stated: of two successive calls of analyzeFrame on one engine,   *)
(* both given full frames and with no setExercise between them, the later  *)
(* returns a reps value at least that of the earlier, in manual mode for   *)
(* every exercise and in Auto-Detect before, during and after locking.     *)
C25_RepsNeverDecrease ==
    [][ (lastOp = "analyzeFrame" /\ lastOp' = "analyzeFrame")
        => fb'.reps >= fb.reps ]_vars

(* C25, amended: the same, except on the call that moves a lock on Plank   *)
(* to Push Up, where reps passes from the seconds held to the count of the *)
(* Push Up counter.                                                        *)
C25_RepsNeverDecreaseWithinAnalyzer ==
    [][ (lastOp = "analyzeFrame" /\ lastOp' = "analyzeFrame")
        => \/ fb'.reps >= fb.reps
           \/ eng.lockedExercise = "Plank" /\ eng'.lockedExercise = "Push Up" ]_vars

C25_Witness ==
    /\ lastOp = "analyzeFrame"
    /\ eng.currentExercise = AutoDetect
    /\ eng.lockedExercise = "Squat"
    /\ fb.reps = 1
    /\ sess.frames = MaxRepsFrames

(* C26 as stated: when the frames carry video timestamps (0, 333, 666, ... *)
(* ms), a frame on which the wrists are beyond half the shoulder width on  *)
(* the side opposite to the last direction, after the centre line was      *)
(* crossed, and more than 500 ms of video time after the previous counted  *)
(* rep (after the start of the video for the first), is counted and its    *)
(* RepTimestamp recorded; so k such frames give reps = k.                  *)
C26_VideoTwistsCounted ==
    [][ ( /\ lastOp' = "analyze"
          /\ ~obs.live
          /\ 2 * Abs(eng'.twist.lastXOffset) > obs'.width
          /\ (IF eng'.twist.lastXOffset > 0 THEN "left" ELSE "right") # eng.twist.direction
          /\ eng.twist.crossedCenter
          /\ inp'.timestamp - (IF obs.lastRepAt = null THEN 0 ELSE obs.lastRepAt) > 500 )
        => /\ eng'.twist.repCount = eng.twist.repCount + 1
           /\ fb'.reps = eng'.twist.repCount
           /\ Len(eng'.twist.repTimestamps) = Len(eng.twist.repTimestamps) + 1 ]_vars

(* what a buffer with drop-oldest eviction holds of the frames passed *)
LastFrames(fed) ==
    IF Len(fed) > maxHistoryLength
    THEN SubSeq(fed, Len(fed) - maxHistoryLength + 1, Len(fed))
    ELSE fed

(* C27 as stated: after k analyzePillars calls on an exercise's scorer its *)
(* history buffer holds the last min(k, 30) frames passed, in order, so    *)
(* that a check reading the buffer (the Leg Raises shoulder drift, which   *)
(* needs more than 5 frames) comes into force.                             *)
C27_HistoryHoldsLastFrames == scorer.history = LastFrames(obs.fed)

(* the pillar functions a scorer class defines itself *)
Defines(class) ==
    CASE class = "RowBiomechanics" -> {"posture", "bracing", "stability", "rom"}
      [] class = "LegRaiseBiomechanics" -> {"stability", "rom", "efficiency"}
      [] OTHER -> {"bracing", "rom", "stability"}

OwnPillar(s, f, p) ==
    CASE p = "stability" -> calculateStability(s, f, f.view)
      [] p = "rom" -> calculateROM(s, f, f.view)
      [] p = "posture" -> calculatePosture(s, f, f.view)
      [] p = "efficiency" -> calculateEfficiency(s, f, "Rest", f.view)
      [] OTHER -> calculateBracing(s, f, f.view)

StatedBreakdown(s, f) ==
    [p \in {"stability", "rom", "posture", "efficiency", "bracing"} |->
        IF p \in Defines(s.class) THEN OwnPillar(s, f, p) ELSE 100]

(* C28 as stated: each pillar of the breakdown analyzePillars returns is   *)
(* the result of the scorer's own pillar function where the scorer defines *)
(* one and 100 where it does not, and the weighted total is taken of       *)
(* these values: a penalty tier of T-Bar Row's posture or bracing function *)
(* shows in the breakdown and in the total.                                *)
C28_BreakdownFromOwnPillars ==
    pillars # Absent
    => LET f == obs.fed[Len(obs.fed)]
           stated == StatedBreakdown(scorer, f)
       IN /\ \A p \in DOMAIN stated : pillars.breakdown[p] = stated[p]
          /\ pillars.total = totalScore(scorer.class, stated)

(* C29 as stated: a Feedback an analyzer returns for a full frame has      *)
(* isGoodForm true only if its score is above 80 points; for every         *)
(* analyzer but Squat isGoodForm is true exactly when the score is above   *)
(* 80, for Squat exactly when the score is above 80 and the frame raised   *)
(* no quality flag.                                                        *)
C29_GoodFormIsScoreAbove80 ==
    (lastOp = "analyze" /\ ~fb.threw)
    => /\ fb.isGoodForm => fb.score > 8000
       /\ sess.target # "Squat" => (fb.isGoodForm <=> fb.score > 8000)
       /\ sess.target = "Squat" => (fb.isGoodForm <=> (fb.score > 8000 /\ ~obs.flagged))

(* C30 as stated: once the analysis phase is 'complete', 'error' or        *)
(* 'idle' no callback sets it to 'analyzing', whatever the order of the    *)
(* 2-second timer, the progress interval and the response; the phase moves *)
(* to 'analyzing' from 'uploading' only, and the loading screen does not   *)
(* come back after a request has ended.                                    *)
C30_PhaseOnlyForward ==
    [][ upload.analysisPhase \in {"complete", "error", "idle"}
        => upload'.analysisPhase # "analyzing" ]_vars

=============================================================================
